---------------------------- MODULE Spec2Model ----------------------------
(***************************************************************************)
(* A model of the subnetting and classful-addressing quizzes:              *)
(*   src/ch-14.py    class SubnetAnalyzer (subnet ID, broadcast address,   *)
(*                   usable range, decimal and binary methods)             *)
(*   src/program.py  the classful resolver (class, default mask, network   *)
(*                   ID, broadcast address of an IP given as text)         *)
(* Each component has its own specification over the same variables:       *)
(*   Spec             the handlers of SubnetAnalyzer                       *)
(*   SpecClassful     the classful resolver                                *)
(*   SpecNumberLine   SubnetAnalyzer.draw_number_line                      *)
(*   SpecMethods      direct calls of SubnetAnalyzer's conversion methods  *)
(*   SpecQuiz         program.py's ask_quiz_question and its timer thread  *)
(*   SpecRepetition   program.py's SpacedRepetitionStats.update_stats      *)
(*   SpecGenerator    program.py's get_ip_address and its lru_cache        *)
(*   SpecFocused      SubnetAnalyzer.focused_practice                      *)
(*   SpecStats        SubnetAnalyzer.update_stats and reset_statistics     *)
(*                                                                         *)
(* Python values are modelled as follows.                                  *)
(*   list of int   a sequence of integers, <<172, 16, 150, 41>>            *)
(*   str           a sequence of one-character strings, <<"1", ".", "2">>  *)
(*   None          the record None                                         *)
(*   int | None    PyInt(i) or None (an integer is wrapped so that it can be *)
(*                 compared with None)                                     *)
(*   a raised exception   the record Raise(kind)                           *)
(* Python indexes from 0; a Python index i is position i + 1 of the        *)
(* sequence.                                                               *)
(***************************************************************************)
EXTENDS Integers, Sequences, FiniteSets, TLC

VARIABLES
    pc,                 \* which handler has run: "start", "practice", "visualization",
                        \* "invalid", "binary_visualization"
    calculation_method, \* self.calculation_method: "decimal" or "binary"
    ip_str,             \* the handler's ip_str: the IP address as text
    mask_str,           \* the handler's mask_str: the mask as text
    ip,                 \* the handler's ip, a list of octets
    mask,               \* the handler's mask, a list of octets
    interesting_octet,  \* interactive_visualization's interesting_octet
    magic_number,       \* interactive_visualization's magic_number
    subnet_id,          \* the handler's subnet_id
    broadcast,          \* the handler's broadcast
    first_usable,       \* practice_problem's first_usable
    last_usable,        \* practice_problem's last_usable
    binary_ip,          \* binary_visualization's binary_ip
    binary_mask,        \* binary_visualization's binary_mask
    binary_subnet,      \* binary_visualization's binary_subnet
    binary_broadcast,   \* binary_visualization's binary_broadcast
    prefix_length,      \* binary_visualization's prefix_length
    ip_addr,            \* program.py, run_quiz's ip_addr: the IP address as text
    ip_info,            \* program.py, run_quiz's ip_info: get_ip_info_dict(ip_addr)
    number_line,        \* what the last draw_number_line computed and printed
    method_call,        \* the last direct call of a method: its name and argument
    method_return,      \* what that call returned or raised
    quiz_pc,            \* ask_quiz_question: "idle", "prompt" (study mode, at
                        \* input), "waiting" (test mode, at input), "returned"
    mode,               \* run_quiz's mode: Str("study") or Str("test"); None
                        \* before the quiz
    asked,              \* how many times ask_quiz_question has been called
    question_id,        \* ask_quiz_question's question_id
    question,           \* the QuizQuestion passed in, with its counters
    max_attempts,       \* ask_quiz_question's max_attempts
    attempt,            \* the study loop's attempt
    user_answer,        \* the text input() returned
    timer_expired,      \* the local timer_expired of ask_quiz_question
    global_timer_expired, \* the module's global timer_expired; None while unset
    timers,             \* the calls whose timer thread is still in time.sleep(10)
    sr_stats,           \* the SpacedRepetitionStats object
    quiz_return,        \* what ask_quiz_question returned
    sr_log,             \* the direct calls of SpacedRepetitionStats.update_stats
                        \* since the object was made: (question_id, correct)
    ip_cache,           \* the lru_cache of get_ip_address: the pairs
                        \* (class_filter, result) it holds
    generator_calls,    \* how many times get_ip_address has been called
    generator_call,     \* the last call of get_ip_address: its class_filter,
                        \* the address its body drew (None if the body did
                        \* not run) and what was returned
    focus_pc,           \* focused_practice: "menu", "first" (in the first
                        \* practice_problem), "asked" (at "Continue practicing?"),
                        \* "again" (in a further practice_problem)
    choice,             \* focused_practice's choice
    old_method,         \* focused_practice's old_method
    old_difficulty,     \* focused_practice's old_difficulty
    difficulty_level,   \* self.difficulty_level
    run_log,            \* the problems of the current run of focused_practice:
                        \* the settings each was generated and solved with
    stats,              \* self.stats
    time_goal,          \* self.time_goal
    stats_log           \* the calls of SubnetAnalyzer.update_stats since the
                        \* statistics were fresh or reset: (correct, time_taken)

textVars == <<ip_str, mask_str>>

problemVars == <<ip, mask>>

answerVars == <<subnet_id, broadcast>>

usableVars == <<first_usable, last_usable>>

magicVars == <<interesting_octet, magic_number>>

binaryVars == <<binary_ip, binary_mask, binary_subnet, binary_broadcast, prefix_length>>

\* the state of ch-14.py's SubnetAnalyzer
analyzerVars ==
    <<pc, calculation_method, textVars, problemVars, magicVars, answerVars,
      usableVars, binaryVars>>

\* the state of program.py's quiz
classfulVars == <<ip_addr, ip_info>>

\* the calls of SubnetAnalyzer's methods outside the handlers
callVars == <<number_line, method_call, method_return>>

\* the state of program.py's ask_quiz_question
quizVars ==
    <<quiz_pc, mode, asked, question_id, question, max_attempts, attempt,
      user_answer, timer_expired, global_timer_expired, timers, sr_stats,
      quiz_return>>

\* the state of program.py's get_ip_address
generatorVars == <<ip_cache, generator_calls, generator_call>>

\* the state of ch-14.py's focused_practice
focusVars == <<focus_pc, choice, old_method, old_difficulty, run_log>>

\* SubnetAnalyzer's settings and statistics
statsVars == <<difficulty_level, stats, time_goal, stats_log>>

\* the state of the components that the handlers of the first four
\* specifications leave alone
sessionVars == <<sr_log, generatorVars, focusVars, statsVars>>

vars == <<analyzerVars, classfulVars, callVars, quizVars, sessionVars>>

---------------------------------------------------------------------------
(* Python values *)

None == [py |-> "None"]

PyInt(i) == [py |-> "int", v |-> i]

Raise(kind) == [py |-> "raise", exc |-> kind]

\* a str where the value may also be None or an int
Str(text) == [py |-> "str", s |-> text]

IsRaise(r) == r \in {Raise("ValueError"), Raise("IndexError")}

Min(a, b) == IF a <= b THEN a ELSE b

\* s[a:b] for 0 <= a <= b: the slice is clipped to the string, never an error
Slice(s, a, b) == SubSeq(s, Min(a, Len(s)) + 1, Min(b, Len(s)))

RECURSIVE Concat(_)
\* "".join(parts) of a list of strings
Concat(parts) ==
    IF parts = <<>> THEN <<>> ELSE Head(parts) \o Concat(Tail(parts))

---------------------------------------------------------------------------
(* Octets and their limits *)

MinOctet == 0

MaxOctet == 255

OctetModulus == 256

OctetCount == 4

AddressBits == 32

OctetBits == 8

Octet == MinOctet..MaxOctet

IsOctets(o) ==
    /\ DOMAIN o = 1..OctetCount
    /\ \A i \in 1..OctetCount : o[i] \in Octet

---------------------------------------------------------------------------
(* ch-14.py: to_binary / from_binary *)

RECURSIVE bin_reversed(_)
\* the binary digits of n, least significant first
bin_reversed(n) ==
    IF n < 2 THEN <<IF n = 1 THEN "1" ELSE "0">>
    ELSE <<IF n % 2 = 1 THEN "1" ELSE "0">> \o bin_reversed(n \div 2)

RECURSIVE bin(_)
\* bin(n)[2:] for n >= 0: the binary digits of n, most significant first
bin(n) ==
    IF n < 2 THEN <<IF n = 1 THEN "1" ELSE "0">>
    ELSE bin(n \div 2) \o <<IF n % 2 = 1 THEN "1" ELSE "0">>

RECURSIVE zfill(_, _)
\* s.zfill(width) for an unsigned s: pad with "0" on the left, never truncate
zfill(s, width) ==
    IF Len(s) >= width THEN s ELSE zfill(<<"0">> \o s, width)

\* bin(octet)[2:].zfill(8)
octet_to_binary(octet) == zfill(bin(octet), OctetBits)

\* octet_to_binary of every valid octet, evaluated once
OctetToBinary == [octet \in Octet |-> octet_to_binary(octet)]

\* SubnetAnalyzer.to_binary
to_binary(ip_or_mask) ==
    Concat([i \in DOMAIN ip_or_mask |->
               IF ip_or_mask[i] \in Octet THEN OctetToBinary[ip_or_mask[i]]
               ELSE octet_to_binary(ip_or_mask[i])])

RECURSIVE BinaryPrefixValue(_, _)
\* the value of the first n characters of a string of "0"/"1"
BinaryPrefixValue(s, n) ==
    IF n = 0 THEN 0
    ELSE 2 * BinaryPrefixValue(s, n - 1) + (IF s[n] = "1" THEN 1 ELSE 0)

\* the characters int() strips from both ends
Whitespace == {" ", "\t", "\n", "\r"}

RECURSIVE strip_whitespace(_)
\* s.strip()
strip_whitespace(s) ==
    IF s = <<>> THEN s
    ELSE IF s[1] \in Whitespace THEN strip_whitespace(Tail(s))
    ELSE IF s[Len(s)] \in Whitespace
         THEN strip_whitespace(SubSeq(s, 1, Len(s) - 1))
    ELSE s

\* what int(s, 2) reads its digits from: s stripped, without one leading
\* sign, without a prefix "0b" or "0B" and the one underscore that may follow
BinaryDigits(s) ==
    LET stripped == strip_whitespace(s)
        unsigned == IF stripped # <<>> /\ stripped[1] \in {"+", "-"}
                    THEN Tail(stripped) ELSE stripped
    IN  IF Len(unsigned) >= 2 /\ unsigned[1] = "0" /\ unsigned[2] \in {"b", "B"}
        THEN IF Len(unsigned) >= 3 /\ unsigned[3] = "_"
             THEN SubSeq(unsigned, 4, Len(unsigned))
             ELSE SubSeq(unsigned, 3, Len(unsigned))
        ELSE unsigned

\* the strings int(s, 2) accepts: the digits are "0" and "1", at least one,
\* with single underscores between digits
IsBinaryLiteral(s) ==
    LET digits == BinaryDigits(s)
    IN  /\ digits # <<>>
        /\ \A k \in DOMAIN digits : digits[k] \in {"0", "1", "_"}
        /\ digits[1] # "_" /\ digits[Len(digits)] # "_"
        /\ \A k \in 1..(Len(digits) - 1) : ~(digits[k] = "_" /\ digits[k + 1] = "_")

\* int(s, 2) where it returns
BinaryValue(s) ==
    LET digits == SelectSeq(BinaryDigits(s), LAMBDA c : c # "_")
        stripped == strip_whitespace(s)
    IN  IF stripped[1] = "-" THEN 0 - BinaryPrefixValue(digits, Len(digits))
        ELSE BinaryPrefixValue(digits, Len(digits))

\* SubnetAnalyzer.from_binary: four slices of 8, whatever the string's length;
\* int(slice, 2) raises ValueError for an empty slice and for a slice that is
\* no binary literal
from_binary(binary_str) ==
    LET octet_binary ==
            [j \in 1..OctetCount |->
                Slice(binary_str, OctetBits * (j - 1), OctetBits * j)]
    IN  IF \E j \in 1..OctetCount : ~IsBinaryLiteral(octet_binary[j])
        THEN Raise("ValueError")
        ELSE [j \in 1..OctetCount |-> BinaryValue(octet_binary[j])]

---------------------------------------------------------------------------
(* Python text: str(int), int(str), split and join *)

Digits == <<"0", "1", "2", "3", "4", "5", "6", "7", "8", "9">>

IsDigit(c) == \E d \in DOMAIN Digits : Digits[d] = c

DigitValue(c) == (CHOOSE d \in DOMAIN Digits : Digits[d] = c) - 1

RECURSIVE str_nat(_)
\* str(n) for n >= 0: decimal digits, no leading zero
str_nat(n) ==
    IF n < 10 THEN <<Digits[n + 1]>>
    ELSE str_nat(n \div 10) \o <<Digits[(n % 10) + 1]>>

\* str(n) of an int
str(n) == IF n < 0 THEN <<"-">> \o str_nat(0 - n) ELSE str_nat(n)

RECURSIVE join(_, _)
\* sep.join(parts)
join(sep, parts) ==
    IF parts = <<>> THEN <<>>
    ELSE IF Len(parts) = 1 THEN parts[1]
    ELSE parts[1] \o sep \o join(sep, Tail(parts))

RECURSIVE split_scan(_, _, _, _)
\* the parts of s[k..] after the part `part` that is being read
split_scan(s, sep, k, part) ==
    IF k > Len(s) THEN <<part>>
    ELSE IF s[k] = sep THEN <<part>> \o split_scan(s, sep, k + 1, <<>>)
    ELSE split_scan(s, sep, k + 1, Append(part, s[k]))

\* s.split(sep) for a one-character sep: always at least one part
split(s, sep) == split_scan(s, sep, 1, <<>>)

RECURSIVE strip(_)
\* s.strip() of blanks
strip(s) ==
    IF s = <<>> THEN s
    ELSE IF s[1] = " " THEN strip(Tail(s))
    ELSE IF s[Len(s)] = " " THEN strip(SubSeq(s, 1, Len(s) - 1))
    ELSE s

\* the digit strings int() accepts after the sign: digits, with single
\* underscores between digits
IsDecimalLiteral(s) ==
    /\ s # <<>>
    /\ \A k \in DOMAIN s : IsDigit(s[k]) \/ s[k] = "_"
    /\ IsDigit(s[1]) /\ IsDigit(s[Len(s)])
    /\ \A k \in 1..(Len(s) - 1) : ~(s[k] = "_" /\ s[k + 1] = "_")

RECURSIVE DecimalValue(_)
\* the value of a decimal literal, underscores skipped
DecimalValue(s) ==
    IF s = <<>> THEN 0
    ELSE IF s[Len(s)] = "_" THEN DecimalValue(SubSeq(s, 1, Len(s) - 1))
    ELSE 10 * DecimalValue(SubSeq(s, 1, Len(s) - 1)) + DigitValue(s[Len(s)])

\* s with blanks stripped and one leading sign removed
Unsigned(s) ==
    LET t == strip(s)
    IN  IF t # <<>> /\ t[1] \in {"+", "-"} THEN Tail(t) ELSE t

\* does int(s) return (TRUE) or raise ValueError (FALSE)
IsIntLiteral(s) == IsDecimalLiteral(Unsigned(s))

\* int(s) where it returns
int(s) ==
    LET t == strip(s)
    IN  IF t[1] = "-" THEN 0 - DecimalValue(Unsigned(s))
        ELSE DecimalValue(Unsigned(s))

\* SubnetAnalyzer.ip_to_str
ip_to_str(o) == join(<<".">>, [k \in DOMAIN o |-> str(o[k])])

\* SubnetAnalyzer.str_to_ip
str_to_ip(text) ==
    LET octets == split(text, ".")
    IN  IF \E k \in DOMAIN octets : ~IsIntLiteral(octets[k])
        THEN Raise("ValueError")
        ELSE [k \in DOMAIN octets |-> int(octets[k])]

\* validate_ip_input with the upper limit off by one
validate_ip_input_off_by_one(text) ==
    LET octets == split(text, ".")
    IN  /\ Len(octets) = OctetCount
        /\ \A k \in DOMAIN octets :
              /\ IsIntLiteral(octets[k])
              /\ ~(int(octets[k]) < MinOctet \/ int(octets[k]) > MaxOctet + 1)

\* SubnetAnalyzer.validate_ip_input
validate_ip_input(text) ==
    LET octets == split(text, ".")
    IN  /\ Len(octets) = OctetCount
        /\ \A k \in DOMAIN octets :
              /\ IsIntLiteral(octets[k])
              /\ ~(int(octets[k]) < MinOctet \/ int(octets[k]) > MaxOctet)

---------------------------------------------------------------------------
(* ch-14.py: Subnet Analysis Methods *)

\* the magic number taken from 255 instead of 256
calculate_magic_number_from_max(mask_octet) == MaxOctet - mask_octet

\* SubnetAnalyzer.calculate_magic_number
calculate_magic_number(mask_octet) == OctetModulus - mask_octet

RECURSIVE first_interesting(_, _)
\* the loop of find_interesting_octet from Python index i on
first_interesting(m, i) ==
    IF i >= OctetCount THEN None
    ELSE IF m[i + 1] \notin {MinOctet, MaxOctet} THEN PyInt(i)
    ELSE first_interesting(m, i + 1)

RECURSIVE first_not_full(_, _)
\* find_interesting_octet that tests the octet against 255 only
first_not_full(m, i) ==
    IF i >= OctetCount THEN None
    ELSE IF m[i + 1] # MaxOctet THEN PyInt(i)
    ELSE first_not_full(m, i + 1)

find_interesting_octet_not_full(m) == first_not_full(m, 0)

\* SubnetAnalyzer.find_interesting_octet
find_interesting_octet(m) == first_interesting(m, 0)

\* the subnet octet rounded to the nearest multiple instead of down
decimal_subnet_octet_nearest(ip_octet, mask_octet) ==
    IF mask_octet = MaxOctet THEN ip_octet
    ELSE IF mask_octet = MinOctet THEN 0
    ELSE LET magic == OctetModulus - mask_octet
         IN  ((ip_octet + magic \div 2) \div magic) * magic

\* one iteration of the loop of decimal_subnet_id
decimal_subnet_octet(ip_octet, mask_octet) ==
    IF mask_octet = MaxOctet THEN ip_octet
    ELSE IF mask_octet = MinOctet THEN 0
    ELSE LET magic == calculate_magic_number(mask_octet)
         IN  (ip_octet \div magic) * magic

\* SubnetAnalyzer.decimal_subnet_id
decimal_subnet_id(i, m) ==
    [k \in 1..OctetCount |-> decimal_subnet_octet(i[k], m[k])]

\* the broadcast octet taken for the start of the next block
decimal_broadcast_octet_next_block(subnet_octet, mask_octet) ==
    IF mask_octet = MaxOctet THEN subnet_octet
    ELSE IF mask_octet = MinOctet THEN MaxOctet
    ELSE LET magic == calculate_magic_number(mask_octet)
         IN  subnet_octet + magic

\* one iteration of the loop of decimal_broadcast_address
decimal_broadcast_octet(subnet_octet, mask_octet) ==
    IF mask_octet = MaxOctet THEN subnet_octet
    ELSE IF mask_octet = MinOctet THEN MaxOctet
    ELSE LET magic == calculate_magic_number(mask_octet)
         IN  subnet_octet + magic - 1

\* SubnetAnalyzer.decimal_broadcast_address
decimal_broadcast_address(s, m) ==
    [k \in 1..OctetCount |-> decimal_broadcast_octet(s[k], m[k])]

\* binary_subnet_id that copies every bit of the IP
binary_subnet_id_copy_ip(i, m) == from_binary(to_binary(i))

\* SubnetAnalyzer.binary_subnet_id
binary_subnet_id(i, m) ==
    LET bits_ip == to_binary(i)
        bits_mask == to_binary(m)
        bits_subnet ==
            [k \in 1..AddressBits |->
                IF bits_mask[k] = "1" THEN bits_ip[k] ELSE "0"]
    IN  from_binary(bits_subnet)

\* binary_broadcast_address that sets the host bits to 0
binary_broadcast_address_host_zero(i, m) ==
    LET bits_ip == to_binary(i)
        bits_mask == to_binary(m)
        bits_broadcast ==
            [k \in 1..AddressBits |->
                IF bits_mask[k] = "1" THEN bits_ip[k] ELSE "0"]
    IN  from_binary(bits_broadcast)

\* SubnetAnalyzer.binary_broadcast_address
binary_broadcast_address(i, m) ==
    LET bits_ip == to_binary(i)
        bits_mask == to_binary(m)
        bits_broadcast ==
            [k \in 1..AddressBits |->
                IF bits_mask[k] = "1" THEN bits_ip[k] ELSE "1"]
    IN  from_binary(bits_broadcast)

\* the usable range with the last address not stepped back
get_usable_range_to_broadcast(s, b) == <<[s EXCEPT ![OctetCount] = @ + 1], b>>

\* the usable range taken for the whole subnet
get_usable_range_whole_subnet(s, b) == <<s, b>>

\* SubnetAnalyzer.get_usable_range: (first_usable, last_usable)
get_usable_range(s, b) ==
    <<[s EXCEPT ![OctetCount] = @ + 1], [b EXCEPT ![OctetCount] = @ - 1]>>

---------------------------------------------------------------------------
(* The problems the handlers are run on *)

\* generate_specific_problem: the book's problems, (ip, mask)
BookProblems ==
    << <<(<<172, 16, 150, 41>>), (<<255, 255, 192, 0>>)>>,
       <<(<<192, 168, 5, 77>>), (<<255, 255, 255, 224>>)>>,
       <<(<<10, 1, 4, 0>>), (<<255, 255, 254, 0>>)>>,
       <<(<<10, 7, 99, 133>>), (<<255, 255, 255, 0>>)>>,
       <<(<<192, 168, 44, 97>>), (<<255, 255, 255, 252>>)>>,
       <<(<<172, 31, 77, 201>>), (<<255, 255, 255, 224>>)>> >>

\* how many of the book's IP addresses are varied, one octet at a time
NumBaseProblems == 1

\* the book's IP addresses, each with one octet replaced by every value
VariedIPs ==
    {[BookProblems[b][1] EXCEPT ![k] = v] :
        b \in 1..NumBaseProblems, k \in 1..OctetCount, v \in Octet}

RECURSIVE Pow2(_)
Pow2(n) == IF n = 0 THEN 1 ELSE 2 * Pow2(n - 1)

\* the mask of prefix length p: p one-bits, then zero-bits
PrefixMask(p) ==
    [k \in 1..OctetCount |->
        IF p >= OctetBits * k THEN MaxOctet
        ELSE IF p <= OctetBits * (k - 1) THEN MinOctet
        ELSE OctetModulus - Pow2(OctetBits * k - p)]

PrefixMasks == {PrefixMask(p) : p \in 0..AddressBits}

\* mask octets a user may type: validate_ip_input accepts any value 0..255
SampleMaskOctets == {0, 1, 128, 253, 254, 255}

\* masks built from the sample octets, prefix masks or not
SampleMasks ==
    {<<a, b, c, d>> : a \in SampleMaskOctets, b \in SampleMaskOctets,
                      c \in SampleMaskOctets, d \in SampleMaskOctets}

\* the book's masks, each with one octet replaced by every value
VariedMasks ==
    {[BookProblems[b][2] EXCEPT ![k] = v] :
        b \in 1..NumBaseProblems, k \in 1..OctetCount, v \in Octet}

\* the lowest and the highest address, and the varied book addresses
EdgeIPs ==
    {<<0, 0, 0, 0>>, <<255, 255, 255, 255>>}
        \cup {BookProblems[b][1] : b \in 1..NumBaseProblems}

\* the book's problems as a set
BookSet == {BookProblems[b] : b \in DOMAIN BookProblems}

\* (ip, mask) with a prefix mask
PrefixProblems == BookSet \cup ((VariedIPs \cup EdgeIPs) \X PrefixMasks)

\* masks whose octets are each a run of one-bits then zero-bits but that are
\* no prefix mask, and a mask with the octet 253
MixedMasks ==
    {<<255, 0, 255, 0>>, <<255, 192, 224, 0>>, <<0, 128, 255, 254>>,
     <<255, 255, 253, 0>>}

\* (ip, mask) with any mask octets
AnyMaskProblems ==
    (EdgeIPs \X (SampleMasks \cup VariedMasks)) \cup (VariedIPs \X MixedMasks)

\* text that is no dotted-decimal address, or an unusual spelling of one
OddTexts ==
    { <<"1", ".", "2", ".", "3">>,
      <<"1", ".", "2", ".", "3", ".", "2", "5", "6">>,
      <<"a", ".", "b", ".", "c", ".", "d">>,
      <<>>,
      <<"1", ".", "2", ".", "3", ".", "4", ".", "5">>,
      <<"1", ".", ".", "3", ".", "4">>,
      <<"-", "1", ".", "2", ".", "3", ".", "4">>,
      <<"+", "1", ".", "2", ".", "3", ".", "4">>,
      <<"0", "1", ".", "2", ".", "3", ".", "0", "0", "4">>,
      <<"1", "_", "0", ".", "2", ".", "3", ".", "4">>,
      <<"1", ".", " ", "2", ".", "3", ".", "4">>,
      <<"1", ".", "2", ".", "3", ".", "4", "_">> }

\* what the user types at the two prompts of interactive_visualization
TypedTexts ==
    {<<ip_to_str(p[1]), ip_to_str(p[2])>> : p \in BookSet \cup AnyMaskProblems}
        \cup (OddTexts \X {ip_to_str(BookProblems[1][2])})
        \cup ({ip_to_str(BookProblems[1][1])} \X OddTexts)

\* float('inf')
Infinity == [py |-> "inf"]

\* self.stats as __init__ and reset_statistics make it, lines 16-30 and
\* 1208-1222, without last_session, the time of the last attempt
FreshStats ==
    [attempts |-> 0, correct |-> 0, streak |-> 0, best_streak |-> 0,
     total_time |-> 0, fastest_time |-> Infinity,
     mastery_levels |->
        [easy_masks_decimal |-> 0, difficult_masks_decimal |-> 0,
         binary_calculation |-> 0, timed_drills |-> 0]]

\* self.time_goal of __init__, line 35
DefaultTimeGoal == 30

---------------------------------------------------------------------------
(* The subnet calculator's handlers *)

Init ==
    /\ pc = "start"
    /\ calculation_method = "decimal"
    /\ ip_str = None /\ mask_str = None
    /\ ip = None /\ mask = None
    /\ interesting_octet = None /\ magic_number = None
    /\ subnet_id = None /\ broadcast = None
    /\ first_usable = None /\ last_usable = None
    /\ binary_ip = None /\ binary_mask = None
    /\ binary_subnet = None /\ binary_broadcast = None
    /\ prefix_length = None
    /\ ip_addr = None
    /\ ip_info = None
    /\ number_line = None
    /\ method_call = None
    /\ method_return = None
    /\ quiz_pc = "idle"
    /\ mode = None
    /\ asked = 0
    /\ question_id = None
    /\ question = None
    /\ max_attempts = None
    /\ attempt = None
    /\ user_answer = None
    /\ timer_expired = None
    /\ global_timer_expired = None
    /\ timers = {}
    /\ sr_stats = [question_stats |-> <<>>, difficult_questions |-> {}]
    /\ quiz_return = None
    /\ sr_log = <<>>
    /\ ip_cache = {}
    /\ generator_calls = 0
    /\ generator_call = None
    /\ focus_pc = "menu"
    /\ choice = None
    /\ old_method = None
    /\ old_difficulty = None
    /\ difficulty_level = "easy"
    /\ run_log = <<>>
    /\ stats = FreshStats
    /\ time_goal = DefaultTimeGoal
    /\ stats_log = <<>>

\* change_settings, lines 1101-1106: choice 2, the calculation method
change_settings ==
    /\ pc = "start"
    /\ \E method_choice \in {"decimal", "binary"} :
          calculation_method' = method_choice
    /\ UNCHANGED <<pc, textVars, problemVars, magicVars, answerVars,
                   usableVars, binaryVars, classfulVars, callVars, quizVars, sessionVars>>

\* practice_problem, lines 711-723: the problem's text and its correct
\* answers. The problem is any valid IP with any prefix mask: the domain of
\* the calculator's methods, of which generate_specific_problem draws a part.
practice_problem ==
    /\ pc = "start"
    /\ \E p \in PrefixProblems :
          LET s == IF calculation_method = "decimal"
                   THEN decimal_subnet_id(p[1], p[2])
                   ELSE binary_subnet_id(p[1], p[2])
              b == IF calculation_method = "decimal"
                   THEN decimal_broadcast_address(s, p[2])
                   ELSE binary_broadcast_address(p[1], p[2])
              usable == get_usable_range(s, b)
          IN  /\ ip' = p[1]
              /\ mask' = p[2]
              /\ ip_str' = ip_to_str(p[1])
              /\ mask_str' = ip_to_str(p[2])
              /\ subnet_id' = s
              /\ broadcast' = b
              /\ first_usable' = usable[1]
              /\ last_usable' = usable[2]
    /\ pc' = "practice"
    /\ UNCHANGED <<calculation_method, magicVars, binaryVars, classfulVars, callVars, quizVars, sessionVars>>

\* interactive_visualization, lines 532-559: the typed text is validated and
\* parsed, then always the decimal method
interactive_visualization ==
    /\ pc = "start"
    /\ \E typed \in TypedTexts :
          /\ ip_str' = typed[1]
          /\ mask_str' = typed[2]
          /\ IF ~validate_ip_input(typed[1]) \/ ~validate_ip_input(typed[2])
             THEN /\ pc' = "invalid"
                  /\ UNCHANGED <<problemVars, magicVars, answerVars>>
             ELSE LET i == str_to_ip(typed[1])
                      m == str_to_ip(typed[2])
                      octet == find_interesting_octet(m)
                      s == decimal_subnet_id(i, m)
                  IN  /\ pc' = "visualization"
                      /\ ip' = i
                      /\ mask' = m
                      /\ interesting_octet' = octet
                      /\ magic_number' =
                            IF octet = None THEN None
                            ELSE PyInt(calculate_magic_number(m[octet.v + 1]))
                      /\ subnet_id' = s
                      /\ broadcast' = decimal_broadcast_address(s, m)
    /\ UNCHANGED <<calculation_method, usableVars, binaryVars, classfulVars, callVars, quizVars, sessionVars>>

\* the number of "1" characters of a string: binary_mask.count('1')
count1(s) == Cardinality({k \in DOMAIN s : s[k] = "1"})

\* binary_visualization, lines 321-329, as practice_problem calls it for the
\* binary method
binary_visualization ==
    /\ pc = "practice"
    /\ calculation_method = "binary"
    /\ binary_ip' = to_binary(ip)
    /\ binary_mask' = to_binary(mask)
    /\ binary_subnet' = to_binary(subnet_id)
    /\ binary_broadcast' = to_binary(broadcast)
    /\ prefix_length' = PyInt(count1(binary_mask'))
    /\ pc' = "binary_visualization"
    /\ UNCHANGED <<calculation_method, textVars, problemVars, magicVars,
                   answerVars, usableVars, classfulVars, callVars, quizVars, sessionVars>>

Next ==
    \/ change_settings
    \/ practice_problem
    \/ interactive_visualization
    \/ binary_visualization

Spec == Init /\ [][Next]_vars

---------------------------------------------------------------------------
(* program.py: the classful resolver *)

ClassA == <<"A">>

ClassB == <<"B">>

ClassC == <<"C">>

ClassD == <<"D">>

ClassE == <<"E">>

\* "Reserved (0.x.x.x)"
Reserved0 ==
    <<"R", "e", "s", "e", "r", "v", "e", "d", " ", "(", "0", ".", "x", ".", "x", ".", "x", ")">>

\* "Reserved (127.x.x.x)"
Reserved127 ==
    <<"R", "e", "s", "e", "r", "v", "e", "d", " ", "(", "1", "2", "7", ".", "x", ".", "x", ".", "x", ")">>

\* "N/A"
NotApplicable == <<"N", "/", "A">>

\* "N/A - Special class"
SpecialClass ==
    <<"N", "/", "A", " ", "-", " ", "S", "p", "e", "c", "i", "a", "l", " ", "c", "l", "a", "s", "s">>

\* CLASS_RANGES, in the dictionary's order: (class, start, end)
CLASS_RANGES ==
    << <<ClassA, 1, 126>>, <<ClassB, 128, 191>>, <<ClassC, 192, 223>>,
       <<ClassD, 224, 239>>, <<ClassE, 240, 255>> >>

\* RESERVED_PREFIXES: (first octet, tag)
RESERVED_PREFIXES == << <<0, Reserved0>>, <<127, Reserved127>> >>

\* CLASS_PROPERTIES: the properties the resolver reads
CLASS_PROPERTIES ==
    << [class |-> ClassA, network_octets |-> PyInt(1), host_octets |-> PyInt(3),
        default_mask |-> Str(<<"2", "5", "5", ".", "0", ".", "0", ".", "0">>)],
       [class |-> ClassB, network_octets |-> PyInt(2), host_octets |-> PyInt(2),
        default_mask |-> Str(<<"2", "5", "5", ".", "2", "5", "5", ".", "0", ".", "0">>)],
       [class |-> ClassC, network_octets |-> PyInt(3), host_octets |-> PyInt(1),
        default_mask |-> Str(<<"2", "5", "5", ".", "2", "5", "5", ".", "2", "5", "5", ".", "0">>)],
       [class |-> ClassD, network_octets |-> Str(NotApplicable),
        host_octets |-> Str(NotApplicable), default_mask |-> Str(NotApplicable)],
       [class |-> ClassE, network_octets |-> Str(NotApplicable),
        host_octets |-> Str(NotApplicable), default_mask |-> Str(NotApplicable)] >>

\* IP_PATTERN.match: four groups of one to three digits between dots; "$"
\* also matches before one final newline
MatchesIPPattern(text) ==
    LET body == IF text # <<>> /\ text[Len(text)] = "\n"
                THEN SubSeq(text, 1, Len(text) - 1) ELSE text
        groups == split(body, ".")
    IN  /\ Len(groups) = 4
        /\ \A k \in DOMAIN groups :
              /\ Len(groups[k]) \in 1..3
              /\ \A c \in DOMAIN groups[k] : IsDigit(groups[k][c])

\* match.groups() of a text that matches
PatternGroups(text) ==
    split(IF text[Len(text)] = "\n" THEN SubSeq(text, 1, Len(text) - 1) ELSE text,
          ".")

\* is_valid_ip
is_valid_ip(text) ==
    /\ MatchesIPPattern(text)
    /\ \A k \in 1..4 :
          ~(int(PatternGroups(text)[k]) < 0 \/ int(PatternGroups(text)[k]) > 255)

\* get_first_octet: PyInt or None
get_first_octet(text) ==
    IF ~is_valid_ip(text) THEN None
    ELSE PyInt(int(split(text, ".")[1]))

RECURSIVE class_of_range(_, _)
\* the loop of get_network_class over CLASS_RANGES from entry k on
class_of_range(first_octet, k) ==
    IF k > Len(CLASS_RANGES) THEN None
    ELSE IF CLASS_RANGES[k][2] <= first_octet /\ first_octet <= CLASS_RANGES[k][3]
              /\ CLASS_RANGES[k][1] \in {ClassA, ClassB, ClassC, ClassD, ClassE}
         THEN Str(CLASS_RANGES[k][1])
    ELSE class_of_range(first_octet, k + 1)

\* get_network_class that never looks at RESERVED_PREFIXES
get_network_class_unreserved(text) ==
    LET first_octet == get_first_octet(text)
    IN  IF first_octet = None THEN None ELSE class_of_range(first_octet.v, 1)

\* get_network_class: Str(tag) or None
get_network_class(text) ==
    LET first_octet == get_first_octet(text)
    IN  IF first_octet = None THEN None
        ELSE IF \E r \in DOMAIN RESERVED_PREFIXES :
                    RESERVED_PREFIXES[r][1] = first_octet.v
             THEN Str(RESERVED_PREFIXES[
                      CHOOSE r \in DOMAIN RESERVED_PREFIXES :
                          RESERVED_PREFIXES[r][1] = first_octet.v][2])
        ELSE class_of_range(first_octet.v, 1)

\* the entry of CLASS_PROPERTIES for a class tag; the tag is a key
PropertiesOf(tag) ==
    CLASS_PROPERTIES[CHOOSE k \in DOMAIN CLASS_PROPERTIES :
                         CLASS_PROPERTIES[k].class = tag]

\* get_property_for_ip without the branch for the reserved prefixes
get_property_for_ip_class_only(text, property_name) ==
    LET network_class == get_network_class(text)
    IN  IF /\ network_class # None
           /\ \E k \in DOMAIN CLASS_PROPERTIES :
                 CLASS_PROPERTIES[k].class = network_class.s
           /\ property_name \in DOMAIN PropertiesOf(network_class.s)
        THEN PropertiesOf(network_class.s)[property_name]
        ELSE None

\* get_property_for_ip, for the properties CLASS_PROPERTIES holds
get_property_for_ip(text, property_name) ==
    LET network_class == get_network_class(text)
    IN  IF /\ network_class # None
           /\ \E k \in DOMAIN CLASS_PROPERTIES :
                 CLASS_PROPERTIES[k].class = network_class.s
           /\ property_name \in DOMAIN PropertiesOf(network_class.s)
        THEN PropertiesOf(network_class.s)[property_name]
        ELSE IF network_class \in {Str(Reserved0), Str(Reserved127)}
             THEN Str(SpecialClass)
        ELSE None

\* count_network_octets
count_network_octets(text) == get_property_for_ip(text, "network_octets")

\* count_host_octets
count_host_octets(text) == get_property_for_ip(text, "host_octets")

\* get_default_mask
get_default_mask(text) == get_property_for_ip(text, "default_mask")

\* [fill] * count
Repeat(fill, count) == [k \in 1..count |-> fill]

\* the body shared by get_network_id and get_broadcast_addr: the first
\* network_octets parts of the text, then the fill
network_address(text, fill) ==
    IF ~is_valid_ip(text) THEN None
    ELSE LET network_class == get_network_class(text)
             network_octets == count_network_octets(text)
             octets == split(text, ".")
         IN  IF /\ network_class \in {Str(ClassA), Str(ClassB), Str(ClassC)}
                /\ network_octets.py = "int"
             THEN Str(join(<<".">>,
                           SubSeq(octets, 1, Min(network_octets.v, Len(octets)))
                               \o Repeat(fill, 4 - network_octets.v)))
             ELSE IF network_class \in {Str(ClassD), Str(ClassE),
                                        Str(Reserved0), Str(Reserved127)}
                  THEN Str(SpecialClass)
             ELSE None

\* get_network_id that keeps one octet too many
get_network_id_one_more(text) ==
    IF ~is_valid_ip(text) THEN None
    ELSE LET network_class == get_network_class(text)
             network_octets == count_network_octets(text)
             octets == split(text, ".")
         IN  IF /\ network_class \in {Str(ClassA), Str(ClassB), Str(ClassC)}
                /\ network_octets.py = "int"
             THEN Str(join(<<".">>,
                           SubSeq(octets, 1, network_octets.v + 1)
                               \o Repeat(<<"0">>, 3 - network_octets.v)))
             ELSE Str(SpecialClass)

\* get_network_id
get_network_id(text) == network_address(text, <<"0">>)

\* get_broadcast_addr that fills the host octets with 254
get_broadcast_addr_last_host(text) == network_address(text, <<"2", "5", "4">>)

\* get_broadcast_addr
get_broadcast_addr(text) == network_address(text, <<"2", "5", "5">>)

\* get_usable_ip_range that leaves the last octet of the broadcast address
get_usable_ip_range_to_broadcast(text) ==
    LET network_id == get_network_id(text)
        broadcast_addr == get_broadcast_addr(text)
        network_class == get_network_class(text)
    IN  IF /\ network_class \in {Str(ClassA), Str(ClassB), Str(ClassC)}
           /\ network_id.py = "str"
           /\ broadcast_addr.py = "str"
        THEN <<Str(join(<<".">>,
                        [split(network_id.s, ".") EXCEPT ![4] = <<"1">>])),
               broadcast_addr>>
        ELSE IF network_class \in {Str(ClassD), Str(ClassE),
                                   Str(Reserved0), Str(Reserved127)}
             THEN <<Str(SpecialClass), Str(SpecialClass)>>
        ELSE <<None, None>>

\* get_usable_ip_range: (first usable, last usable)
get_usable_ip_range(text) ==
    LET network_id == get_network_id(text)
        broadcast_addr == get_broadcast_addr(text)
        network_class == get_network_class(text)
    IN  IF /\ network_class \in {Str(ClassA), Str(ClassB), Str(ClassC)}
           /\ network_id.py = "str"
           /\ broadcast_addr.py = "str"
        THEN <<Str(join(<<".">>,
                        [split(network_id.s, ".") EXCEPT ![4] = <<"1">>])),
               Str(join(<<".">>,
                        [split(broadcast_addr.s, ".") EXCEPT ![4] = <<"2", "5", "4">>]))>>
        ELSE IF network_class \in {Str(ClassD), Str(ClassE),
                                   Str(Reserved0), Str(Reserved127)}
             THEN <<Str(SpecialClass), Str(SpecialClass)>>
        ELSE <<None, None>>

\* get_ip_info_dict: the entries that are computed from the address
get_ip_info_dict(text) ==
    [ip_address |-> text,
     network_class |-> get_network_class(text),
     network_octets |-> count_network_octets(text),
     host_octets |-> count_host_octets(text),
     network_id |-> get_network_id(text),
     broadcast |-> get_broadcast_addr(text),
     usable_range |-> get_usable_ip_range(text),
     default_mask |-> get_default_mask(text)]

\* the last three octets of the addresses that are analysed
HostSamples ==
    << <<7, 99, 133>>, <<0, 0, 5>>, <<255, 255, 255>>, <<0, 0, 0>>,
       <<168, 5, 77>>, <<16, 150, 41>> >>

\* how many of HostSamples are used
NumHostSamples == 3

\* every first octet with each host sample, as text
SampleAddresses ==
    {ip_to_str(<<f>> \o HostSamples[h]) : f \in Octet, h \in 1..NumHostSamples}

\* text that is no address, or an unusual spelling of one:
\* "1.2.3", "1.2.3.256", "a.b.c.d", "+1.2.3.4", "010.001.2.3", "192.168.1.5\n",
\* "1.2.3.4.5", "1234.1.1.1", "000.1.2.3", "239.1.1.1\n", ""
OddAddresses ==
    { <<"1", ".", "2", ".", "3">>,
      <<"1", ".", "2", ".", "3", ".", "2", "5", "6">>,
      <<"a", ".", "b", ".", "c", ".", "d">>,
      <<"+", "1", ".", "2", ".", "3", ".", "4">>,
      <<"0", "1", "0", ".", "0", "0", "1", ".", "2", ".", "3">>,
      <<"1", "9", "2", ".", "1", "6", "8", ".", "1", ".", "5">> \o <<"\n">>,
      <<"1", ".", "2", ".", "3", ".", "4", ".", "5">>,
      <<"1", "2", "3", "4", ".", "1", ".", "1", ".", "1">>,
      <<"0", "0", "0", ".", "1", ".", "2", ".", "3">>,
      <<"2", "3", "9", ".", "1", ".", "1", ".", "1">> \o <<"\n">>,
      <<>> }

\* run_quiz, lines 1008-1018: the address of the round and its information.
\* The address is any text: the domain of the resolver's functions, of which
\* get_ip_address draws the class A, B and C addresses.
run_quiz ==
    /\ ip_addr = None
    /\ \E text \in SampleAddresses \cup OddAddresses :
          /\ ip_addr' = text
          /\ ip_info' = get_ip_info_dict(text)
    /\ UNCHANGED <<analyzerVars, callVars, quizVars, sessionVars>>

NextClassful == run_quiz

SpecClassful == Init /\ [][NextClassful]_vars

---------------------------------------------------------------------------
(* ch-14.py: SubnetAnalyzer.draw_number_line *)

\* max_value, line 377
max_value == 255

\* min_width, line 387
min_width == 128

\* max_width, line 388
max_width == 256

\* the columns kept free beside the line: width - 10, line 389
width_margin == 10

\* below this divisor only every 8th label is written, lines 394-395
label_spacing == 8

\* max_rows, line 454
max_rows == 16

\* the width used when the terminal's size is unknown, line 385
fallback_width == 80

Max(a, b) == IF a >= b THEN a ELSE b

\* labels without the final append of max_value
labels_multiples_only(divisor) ==
    [k \in 1..((max_value \div divisor) + 1) |-> (k - 1) * divisor]

\* labels, lines 378-380: the multiples of the divisor up to max_value, then
\* max_value if it is not the last multiple
labels(divisor) ==
    LET multiples == [k \in 1..((max_value \div divisor) + 1) |-> (k - 1) * divisor]
    IN  IF multiples[Len(multiples)] # max_value
        THEN Append(multiples, max_value)
        ELSE multiples

\* usable, line 389
usable_width(width) == Max(min_width, Min(width - width_margin, max_width))

\* round(numerator / denominator) for numerator >= 0, denominator > 0:
\* Python rounds a half to the even neighbour
round(numerator, denominator) ==
    LET below == numerator \div denominator
        twice == 2 * (numerator % denominator)
    IN  IF twice < denominator THEN below
        ELSE IF twice > denominator THEN below + 1
        ELSE IF below % 2 = 0 THEN below
        ELSE below + 1

\* round(label / max_value * length), lines 392 and 396
position(label, length) == round(label * length, max_value)

\* positions, line 392
positions(divisor, width) ==
    LET lbls == labels(divisor)
        length == usable_width(width) - 1
    IN  [k \in DOMAIN lbls |-> position(lbls[k], length)]

\* disp, line 395
disp(divisor) ==
    SelectSeq(labels(divisor),
              LAMBDA lbl : lbl % label_spacing = 0 \/ lbl \in {0, max_value})

\* disp_pos, line 396
disp_pos(divisor, width) ==
    LET shown == disp(divisor)
        length == usable_width(width) - 1
    IN  [k \in DOMAIN shown |-> position(shown[k], length)]

\* s[first::2], with first counted from 0
every_second(s, first) ==
    [k \in 1..((Len(s) - first + 1) \div 2) |-> s[first + 2 * k - 1]]

\* top, lines 397 and 400
top(divisor) ==
    IF divisor < label_spacing THEN every_second(disp(divisor), 0)
    ELSE labels(divisor)

\* top_pos, lines 397 and 400
top_pos(divisor, width) ==
    IF divisor < label_spacing THEN every_second(disp_pos(divisor, width), 0)
    ELSE positions(divisor, width)

\* bot, lines 398 and 401
bot(divisor) ==
    IF divisor < label_spacing THEN every_second(disp(divisor), 1) ELSE <<>>

\* bot_pos, lines 398 and 401
bot_pos(divisor, width) ==
    IF divisor < label_spacing THEN every_second(disp_pos(divisor, width), 1)
    ELSE <<>>

\* start without the clamp to the buffer
label_start_centered(pos, digits, usable) == pos - digits \div 2

\* start, lines 406 and 419: where the first character of a label goes
label_start(pos, digits, usable) ==
    Max(0, Min(pos - digits \div 2, usable - digits))

\* the indexes of top_line or bot_line that receive a character, lines
\* 404-408 and 417-421
label_indexes(lbls, poss, usable) ==
    UNION {LET digits == Len(str(lbls[k]))
               start == label_start(poss[k], digits, usable)
           IN  {start + i : i \in 0..(digits - 1)} : k \in DOMAIN lbls}

\* every index of a line buffer that is assigned to, lines 404-437
buffer_indexes(divisor, width) ==
    LET above == top_pos(divisor, width)
        below == bot_pos(divisor, width)
        marks == positions(divisor, width)
    IN  label_indexes(top(divisor), above, usable_width(width))
            \cup label_indexes(bot(divisor), below, usable_width(width))
            \cup {above[k] : k \in DOMAIN above}
            \cup {below[k] : k \in DOMAIN below}
            \cup {marks[k] : k \in DOMAIN marks}

\* end, line 445, for the range that starts at labels[i]; i counts from 0
range_end(lbls, i) ==
    IF i + 1 < Len(lbls) - 1 \/ lbls[i + 2] # 255
    THEN lbls[i + 2] - 1
    ELSE 255

\* ranges, lines 442-452: start, end and whether the cell gets the arrows
ranges(divisor, highlighted_range) ==
    LET lbls == labels(divisor)
    IN  [k \in 1..(Len(lbls) - 1) |->
            [start |-> lbls[k],
             end |-> range_end(lbls, k - 1),
             highlighted |->
                /\ highlighted_range # None
                /\ highlighted_range # <<>>
                /\ lbls[k] = highlighted_range[1]
                /\ range_end(lbls, k - 1) = highlighted_range[2]]]

\* math.ceil(numerator / denominator) for numerator >= 0, denominator > 0
ceil(numerator, denominator) == (numerator + denominator - 1) \div denominator

\* cols, line 455
cols(count) == ceil(count, max_rows)

\* rows, line 456; undefined (ZeroDivisionError) when cols is 0
rows(count) == ceil(count, cols(count))

\* table, lines 457-466: row i holds the numbers idx + 1 of its cells
table(count) ==
    LET row_count == rows(count)
        col_count == cols(count)
    IN  [i \in 1..row_count |->
            SelectSeq([j \in 1..col_count |-> (i - 1) + (j - 1) * row_count + 1],
                      LAMBDA number : number - 1 < count)]

\* the exception draw_number_line ends with, or None: an index outside the
\* line buffer (a list of usable characters accepts -usable..usable-1) is an
\* IndexError, no column is a ZeroDivisionError
draw_number_line_raises(indexes, usable, count) ==
    IF \E index \in indexes : index < 0 - usable \/ index >= usable
    THEN Raise("IndexError")
    ELSE IF cols(count) = 0 THEN Raise("ZeroDivisionError")
    ELSE None

\* the terminal widths shutil.get_terminal_size reports, and the fallback
TerminalWidths ==
    {0, fallback_width, 1000}
        \cup {min_width + width_margin - 1 + 4 * k : k \in 0..33}

\* the highlighted_range arguments: none, the first block, the block of 100,
\* a pair that is no block
HighlightRanges(divisor) ==
    {None, <<0, divisor - 1>>,
     <<(100 \div divisor) * divisor, (100 \div divisor) * divisor + divisor - 1>>,
     <<7, 3>>}

\* draw_number_line, lines 370-469. The divisor is any magic number 1..255:
\* the handlers pass 256 - mask octet for a mask octet 1..254.
draw_number_line ==
    /\ number_line = None
    /\ \E divisor \in 1..max_value, width \in TerminalWidths :
          \E highlighted_range \in HighlightRanges(divisor) :
              LET blocks == ranges(divisor, highlighted_range)
                  indexes == buffer_indexes(divisor, width)
              IN  number_line' =
                      [divisor |-> divisor,
                       highlighted_range |-> highlighted_range,
                       width |-> width,
                       labels |-> labels(divisor),
                       usable |-> usable_width(width),
                       positions |-> positions(divisor, width),
                       top |-> top(divisor),
                       bot |-> bot(divisor),
                       indexes |-> indexes,
                       ranges |-> blocks,
                       cols |-> cols(Len(blocks)),
                       rows |-> IF cols(Len(blocks)) = 0 THEN None
                                ELSE PyInt(rows(Len(blocks))),
                       table |-> IF cols(Len(blocks)) = 0 THEN None
                                 ELSE table(Len(blocks)),
                       raised |-> draw_number_line_raises(
                                      indexes, usable_width(width), Len(blocks))]
    /\ UNCHANGED <<analyzerVars, classfulVars, method_call, method_return, quizVars, sessionVars>>

NextNumberLine == draw_number_line

SpecNumberLine == Init /\ [][NextNumberLine]_vars

---------------------------------------------------------------------------
(* ch-14.py: direct calls of the methods of SubnetAnalyzer *)

\* a returned list
PyList(items) == [py |-> "list", v |-> items]

\* the longest argument from_binary is called with
MaxBinaryLen == 40

\* 48 characters of "0"/"1": the six octets 172, 16, 150, 41, 165, 90
LongBinaryText == to_binary(<<172, 16, 150, 41, 165, 90>>)

\* characters that are no binary digit; int() gives some of them a meaning
OddCharacters == {"2", "x", " ", "_", "+", "-", "b", "\n"}

\* the arguments of from_binary: the binary text of addresses and masks, every
\* length from 0 to 40, and 32-character texts with one or two other characters
BinaryTexts ==
    {to_binary(o) : o \in EdgeIPs \cup PrefixMasks}
        \cup {SubSeq(LongBinaryText, 1, n) : n \in 0..MaxBinaryLen}
        \cup {[to_binary(<<172, 16, 150, 41>>) EXCEPT ![k] = c] :
                 k \in {1, 2, 8, 9, 17, 31, 32}, c \in OddCharacters}
        \cup {[to_binary(<<172, 16, 150, 41>>) EXCEPT ![1] = "0", ![2] = c] :
                 c \in {"b", "B", "_"}}

\* a call of from_binary(binary_str)
call_from_binary ==
    /\ method_call = None
    /\ \E binary_str \in BinaryTexts :
          /\ method_call' = [method |-> "from_binary", binary_str |-> binary_str]
          /\ method_return' =
                IF from_binary(binary_str) = Raise("ValueError")
                THEN Raise("ValueError")
                ELSE PyList(from_binary(binary_str))
    /\ UNCHANGED <<analyzerVars, classfulVars, number_line, quizVars, sessionVars>>

\* a call of calculate_magic_number(mask_octet) with any octet
call_calculate_magic_number ==
    /\ method_call = None
    /\ \E mask_octet \in Octet :
          /\ method_call' =
                [method |-> "calculate_magic_number", mask_octet |-> mask_octet]
          /\ method_return' = PyInt(calculate_magic_number(mask_octet))
    /\ UNCHANGED <<analyzerVars, classfulVars, number_line, quizVars, sessionVars>>

\* Python lists are objects: a heap is the sequence of the lists that exist,
\* and a reference to a list is its place in the heap. A call takes
\* references and returns the heap it leaves behind with what it returns.

\* a list built by append in a method: a new object
new_list(heap, items) == [heap |-> Append(heap, items), ref |-> Len(heap) + 1]

\* a "copy" that is the same object as the original
list_alias(heap, ref) == [heap |-> heap, ref |-> ref]

\* list.copy(), lines 286 and 290: a new object with the same items
list_copy(heap, ref) == [heap |-> Append(heap, heap[ref]), ref |-> Len(heap) + 1]

\* decimal_subnet_id(ip, mask), lines 193-210, on references
decimal_subnet_id_call(heap, ip_ref, mask_ref) ==
    new_list(heap, decimal_subnet_id(heap[ip_ref], heap[mask_ref]))

\* decimal_broadcast_address(subnet_id, mask), lines 212-229, on references
decimal_broadcast_address_call(heap, subnet_ref, mask_ref) ==
    new_list(heap, decimal_broadcast_address(heap[subnet_ref], heap[mask_ref]))

\* binary_subnet_id(ip, mask), lines 231-247, on references
binary_subnet_id_call(heap, ip_ref, mask_ref) ==
    new_list(heap, binary_subnet_id(heap[ip_ref], heap[mask_ref]))

\* binary_broadcast_address(ip, mask), lines 249-265, on references
binary_broadcast_address_call(heap, ip_ref, mask_ref) ==
    new_list(heap, binary_broadcast_address(heap[ip_ref], heap[mask_ref]))

\* get_usable_range(subnet_id, broadcast), lines 283-293, on references: each
\* argument is copied and the last item of the copy is changed in place
get_usable_range_call(heap, subnet_ref, broadcast_ref) ==
    LET first == list_copy(heap, subnet_ref)
        heap_first == [first.heap EXCEPT ![first.ref][OctetCount] = @ + 1]
        last == list_copy(heap_first, broadcast_ref)
        heap_last == [last.heap EXCEPT ![last.ref][OctetCount] = @ - 1]
    IN  [heap |-> heap_last, first_usable |-> first.ref, last_usable |-> last.ref]

\* get_step_by_step_explanation, lines 611-704, on references: the usable
\* range is computed again, the lists are read, and the "Final Results"
\* lines of the text are returned
get_step_by_step_explanation_call(heap, ip_ref, mask_ref, subnet_ref, broadcast_ref, calc_method) ==
    LET usable == get_usable_range_call(heap, subnet_ref, broadcast_ref)
    IN  [heap |-> usable.heap,
         text |-> [subnet_id |-> ip_to_str(usable.heap[subnet_ref]),
                   broadcast |-> ip_to_str(usable.heap[broadcast_ref]),
                   first_usable |-> ip_to_str(usable.heap[usable.first_usable]),
                   last_usable |-> ip_to_str(usable.heap[usable.last_usable])]]

\* the problems the core calculations are called on: the book's, and the
\* edge addresses with the prefix lengths 0, 31 and 32
CallProblems ==
    BookSet \cup (EdgeIPs \X {PrefixMask(0), PrefixMask(31), PrefixMask(32)})

\* the lists practice_problem holds when it calls the core calculations,
\* lines 711-723: ip, mask, subnet_id and broadcast are four objects
ProblemHeap(p) ==
    <<p[1], p[2], decimal_subnet_id(p[1], p[2]),
      decimal_broadcast_address(decimal_subnet_id(p[1], p[2]), p[2])>>

\* a call of decimal_subnet_id(ip, mask)
call_decimal_subnet_id ==
    /\ method_call = None
    /\ \E p \in CallProblems :
          LET done == decimal_subnet_id_call(ProblemHeap(p), 1, 2)
          IN  /\ method_call' = [method |-> "decimal_subnet_id",
                                 heap |-> ProblemHeap(p), args |-> <<1, 2>>]
              /\ method_return' = [heap |-> done.heap, refs |-> <<done.ref>>]
    /\ UNCHANGED <<analyzerVars, classfulVars, number_line, quizVars, sessionVars>>

\* a call of decimal_broadcast_address(subnet_id, mask)
call_decimal_broadcast_address ==
    /\ method_call = None
    /\ \E p \in CallProblems :
          LET done == decimal_broadcast_address_call(ProblemHeap(p), 3, 2)
          IN  /\ method_call' = [method |-> "decimal_broadcast_address",
                                 heap |-> ProblemHeap(p), args |-> <<3, 2>>]
              /\ method_return' = [heap |-> done.heap, refs |-> <<done.ref>>]
    /\ UNCHANGED <<analyzerVars, classfulVars, number_line, quizVars, sessionVars>>

\* a call of binary_subnet_id(ip, mask)
call_binary_subnet_id ==
    /\ method_call = None
    /\ \E p \in CallProblems :
          LET done == binary_subnet_id_call(ProblemHeap(p), 1, 2)
          IN  /\ method_call' = [method |-> "binary_subnet_id",
                                 heap |-> ProblemHeap(p), args |-> <<1, 2>>]
              /\ method_return' = [heap |-> done.heap, refs |-> <<done.ref>>]
    /\ UNCHANGED <<analyzerVars, classfulVars, number_line, quizVars, sessionVars>>

\* a call of binary_broadcast_address(ip, mask)
call_binary_broadcast_address ==
    /\ method_call = None
    /\ \E p \in CallProblems :
          LET done == binary_broadcast_address_call(ProblemHeap(p), 1, 2)
          IN  /\ method_call' = [method |-> "binary_broadcast_address",
                                 heap |-> ProblemHeap(p), args |-> <<1, 2>>]
              /\ method_return' = [heap |-> done.heap, refs |-> <<done.ref>>]
    /\ UNCHANGED <<analyzerVars, classfulVars, number_line, quizVars, sessionVars>>

\* a call of get_usable_range(subnet_id, broadcast)
call_get_usable_range ==
    /\ method_call = None
    /\ \E p \in CallProblems :
          LET done == get_usable_range_call(ProblemHeap(p), 3, 4)
          IN  /\ method_call' = [method |-> "get_usable_range",
                                 heap |-> ProblemHeap(p), args |-> <<3, 4>>]
              /\ method_return' =
                    [heap |-> done.heap,
                     refs |-> <<done.first_usable, done.last_usable>>]
    /\ UNCHANGED <<analyzerVars, classfulVars, number_line, quizVars, sessionVars>>

\* a call of get_step_by_step_explanation(ip, mask, subnet_id, broadcast,
\* calc_method)
call_get_step_by_step_explanation ==
    /\ method_call = None
    /\ \E p \in CallProblems, calc_method \in {"decimal", "binary"} :
          LET done == get_step_by_step_explanation_call(
                          ProblemHeap(p), 1, 2, 3, 4, calc_method)
          IN  /\ method_call' = [method |-> "get_step_by_step_explanation",
                                 heap |-> ProblemHeap(p), args |-> <<1, 2, 3, 4>>,
                                 calc_method |-> calc_method]
              /\ method_return' = [heap |-> done.heap, refs |-> <<>>,
                                   text |-> done.text]
    /\ UNCHANGED <<analyzerVars, classfulVars, number_line, quizVars, sessionVars>>

NextMethods ==
    \/ call_from_binary
    \/ call_calculate_magic_number
    \/ call_decimal_subnet_id
    \/ call_decimal_broadcast_address
    \/ call_binary_subnet_id
    \/ call_binary_broadcast_address
    \/ call_get_usable_range
    \/ call_get_step_by_step_explanation

SpecMethods == Init /\ [][NextMethods]_vars

---------------------------------------------------------------------------
(* program.py: ask_quiz_question, its timer thread, SpacedRepetitionStats *)

\* a Python bool
PyBool(b) == [py |-> "bool", v |-> b]

\* the lower-case and the upper-case letters, in the same order
LowerCase ==
    <<"a", "b", "c", "d", "e", "f", "g", "h", "i", "j", "k", "l", "m",
      "n", "o", "p", "q", "r", "s", "t", "u", "v", "w", "x", "y", "z">>

UpperCase ==
    <<"A", "B", "C", "D", "E", "F", "G", "H", "I", "J", "K", "L", "M",
      "N", "O", "P", "Q", "R", "S", "T", "U", "V", "W", "X", "Y", "Z">>

\* s.upper()
upper(s) ==
    [k \in DOMAIN s |->
        IF \E l \in DOMAIN LowerCase : LowerCase[l] = s[k]
        THEN UpperCase[CHOOSE l \in DOMAIN LowerCase : LowerCase[l] = s[k]]
        ELSE s[k]]

\* the address the questions are about
QuizAddress == <<"1", "0", ".", "7", ".", "9", "9", ".", "1", "3", "3">>

\* two of run_quiz's questions, lines 1035-1040 and 1093-1099, with the index
\* run_quiz gives them as question_id: the class, checked by
\* ans.upper() == correct, and the network ID, checked by
\* ans.strip() == str(correct).strip(). The correct answers are ip_info's
\* network_class and network_id for QuizAddress: "A" and "10.0.0.0".
QuizQuestions ==
    << [question_id |-> 0, validator |-> "upper", correct_answer |-> ClassA],
       [question_id |-> 7, validator |-> "strip",
        correct_answer |-> <<"1", "0", ".", "0", ".", "0", ".", "0">>] >>

\* how many of QuizQuestions are asked
NumQuestions == Len(QuizQuestions)

\* question.validator(user_answer, question.correct_answer)
validator(kind, answer, correct_answer) ==
    IF kind = "upper" THEN upper(answer) = correct_answer
    ELSE strip_whitespace(answer) = strip_whitespace(correct_answer)

\* what the user types: "A", "a", "B", "10.0.0.0", " 10.0.0.0 ", ""
AnswerTexts ==
    { <<"A">>, <<"a">>, <<"B">>,
      <<"1", "0", ".", "0", ".", "0", ".", "0">>,
      <<" ", "1", "0", ".", "0", ".", "0", ".", "0", " ">>,
      <<>> }

\* the default of max_attempts, line 783
DefaultMaxAttempts == 3

\* how many times ask_quiz_question is called
MaxAsked == 2

\* question_stats.get(question_id, (0, 0))
StatsOf(sr, id) ==
    IF id \in DOMAIN sr.question_stats THEN sr.question_stats[id]
    ELSE <<0, 0>>

\* update_stats that marks a question as difficult from its first attempt
update_stats_from_first_attempt(sr, id, correct) ==
    LET attempts == StatsOf(sr, id)[1] + 1
        correct_count == StatsOf(sr, id)[2] + (IF correct THEN 1 ELSE 0)
    IN  [question_stats |->
            [q \in DOMAIN sr.question_stats \cup {id} |->
                IF q = id THEN <<attempts, correct_count>>
                ELSE sr.question_stats[q]],
         difficult_questions |->
            IF 10 * correct_count < 6 * attempts
            THEN sr.difficult_questions \cup {id}
            ELSE IF id \in sr.difficult_questions
                    /\ 4 * correct_count >= 3 * attempts
                 THEN sr.difficult_questions \ {id}
            ELSE sr.difficult_questions]

\* SpacedRepetitionStats.update_stats, lines 197-212; correct_count / attempts
\* is compared with 0.6 and 0.75 in whole numbers
update_stats(sr, id, correct) ==
    LET attempts == StatsOf(sr, id)[1] + 1
        correct_count == StatsOf(sr, id)[2] + (IF correct THEN 1 ELSE 0)
    IN  [question_stats |->
            [q \in DOMAIN sr.question_stats \cup {id} |->
                IF q = id THEN <<attempts, correct_count>>
                ELSE sr.question_stats[q]],
         difficult_questions |->
            IF attempts >= 2 /\ 10 * correct_count < 6 * attempts
            THEN sr.difficult_questions \cup {id}
            ELSE IF id \in sr.difficult_questions
                    /\ 4 * correct_count >= 3 * attempts
                 THEN sr.difficult_questions \ {id}
            ELSE sr.difficult_questions]

\* ask_quiz_question, lines 799-800 and 834-852: the call, up to the first
\* input(). In test mode the local timer_expired is set to False and the
\* timer thread is started.
ask_quiz_question ==
    /\ quiz_pc \in {"idle", "returned"}
    /\ asked < MaxAsked
    /\ \E q \in 1..NumQuestions, m \in {"study", "test"},
          limit \in 1..DefaultMaxAttempts :
          /\ mode \in {None, Str(m)}
          /\ mode' = Str(m)
          /\ max_attempts' = limit
          /\ question_id' = QuizQuestions[q].question_id
          /\ question' = [validator |-> QuizQuestions[q].validator,
                          correct_answer |-> QuizQuestions[q].correct_answer,
                          attempts |-> 1,
                          correct_attempts |-> 0]
          /\ IF m = "study"
             THEN /\ quiz_pc' = "prompt"
                  /\ attempt' = PyInt(1)
                  /\ UNCHANGED <<timer_expired, timers>>
             ELSE /\ quiz_pc' = "waiting"
                  /\ attempt' = None
                  /\ timer_expired' = PyBool(FALSE)
                  /\ timers' = timers \cup {asked + 1}
    /\ asked' = asked + 1
    /\ user_answer' = None
    /\ quiz_return' = None
    /\ UNCHANGED <<global_timer_expired, sr_stats>>
    /\ UNCHANGED <<analyzerVars, classfulVars, callVars, sessionVars>>

\* timer_function, lines 843-846: after time.sleep(10) a timer thread
\* assigns the module's global timer_expired
timer_function ==
    /\ \E t \in timers : timers' = timers \ {t}
    /\ global_timer_expired' = PyBool(TRUE)
    /\ UNCHANGED <<quiz_pc, mode, asked, question_id, question, max_attempts,
                   attempt, user_answer, timer_expired, sr_stats, quiz_return>>
    /\ UNCHANGED <<analyzerVars, classfulVars, callVars, sessionVars>>

\* study mode in which every rejected answer is recorded in sr_stats
study_answer_records_each_attempt ==
    /\ quiz_pc = "prompt"
    /\ \E answer \in AnswerTexts :
          /\ user_answer' = answer
          /\ IF validator(question.validator, answer, question.correct_answer)
             THEN /\ question' = [question EXCEPT !.correct_attempts = @ + 1]
                  /\ sr_stats' = update_stats(sr_stats, question_id, TRUE)
                  /\ quiz_return' = PyBool(TRUE)
                  /\ quiz_pc' = "returned"
                  /\ UNCHANGED attempt
             ELSE IF attempt.v < max_attempts
                  THEN /\ attempt' = PyInt(attempt.v + 1)
                       /\ sr_stats' = update_stats(sr_stats, question_id, FALSE)
                       /\ UNCHANGED <<question, quiz_return, quiz_pc>>
             ELSE /\ sr_stats' = update_stats(sr_stats, question_id, FALSE)
                  /\ quiz_return' = PyBool(FALSE)
                  /\ quiz_pc' = "returned"
                  /\ UNCHANGED <<question, attempt>>
    /\ UNCHANGED <<mode, asked, question_id, max_attempts, timer_expired,
                   global_timer_expired, timers>>
    /\ UNCHANGED <<analyzerVars, classfulVars, callVars, sessionVars>>

\* study mode, lines 803-832: input() returns and the attempt is judged
study_answer ==
    /\ quiz_pc = "prompt"
    /\ \E answer \in AnswerTexts :
          /\ user_answer' = answer
          /\ IF validator(question.validator, answer, question.correct_answer)
             THEN /\ question' = [question EXCEPT !.correct_attempts = @ + 1]
                  /\ sr_stats' = update_stats(sr_stats, question_id, TRUE)
                  /\ quiz_return' = PyBool(TRUE)
                  /\ quiz_pc' = "returned"
                  /\ UNCHANGED attempt
             ELSE IF attempt.v < max_attempts
                  THEN /\ attempt' = PyInt(attempt.v + 1)
                       /\ UNCHANGED <<question, sr_stats, quiz_return, quiz_pc>>
             ELSE /\ sr_stats' = update_stats(sr_stats, question_id, FALSE)
                  /\ quiz_return' = PyBool(FALSE)
                  /\ quiz_pc' = "returned"
                  /\ UNCHANGED <<question, attempt>>
    /\ UNCHANGED <<mode, asked, question_id, max_attempts, timer_expired,
                   global_timer_expired, timers>>
    /\ UNCHANGED <<analyzerVars, classfulVars, callVars, sessionVars>>

\* test mode, lines 852-880: input() returns and the local timer_expired
\* decides between "Time expired" and the validator
test_answer ==
    /\ quiz_pc = "waiting"
    /\ \E answer \in AnswerTexts :
          /\ user_answer' = answer
          /\ IF timer_expired = PyBool(TRUE)
             THEN /\ sr_stats' = update_stats(sr_stats, question_id, FALSE)
                  /\ quiz_return' = PyBool(FALSE)
                  /\ UNCHANGED question
             ELSE IF validator(question.validator, answer, question.correct_answer)
                  THEN /\ question' = [question EXCEPT !.correct_attempts = @ + 1]
                       /\ sr_stats' = update_stats(sr_stats, question_id, TRUE)
                       /\ quiz_return' = PyBool(TRUE)
             ELSE /\ sr_stats' = update_stats(sr_stats, question_id, FALSE)
                  /\ quiz_return' = PyBool(FALSE)
                  /\ UNCHANGED question
    /\ quiz_pc' = "returned"
    /\ UNCHANGED <<mode, asked, question_id, max_attempts, attempt,
                   timer_expired, global_timer_expired, timers>>
    /\ UNCHANGED <<analyzerVars, classfulVars, callVars, sessionVars>>

NextQuiz ==
    \/ ask_quiz_question
    \/ timer_function
    \/ study_answer
    \/ test_answer

SpecQuiz == Init /\ [][NextQuiz]_vars

---------------------------------------------------------------------------
(* program.py: SpacedRepetitionStats.update_stats called directly *)

\* the question ids update_stats is called with
QuestionIds == {QuizQuestions[q].question_id : q \in 1..NumQuestions}

\* how many times update_stats is called
MaxRepetitionCalls == 5

\* a call of sr_stats.update_stats(question_id, correct) on the object that
\* started empty
call_sr_update_stats ==
    /\ Len(sr_log) < MaxRepetitionCalls
    /\ \E id \in QuestionIds, correct \in BOOLEAN :
          /\ sr_stats' = update_stats(sr_stats, id, correct)
          /\ sr_log' = Append(sr_log, <<id, correct>>)
    /\ UNCHANGED <<quiz_pc, mode, asked, question_id, question, max_attempts,
                   attempt, user_answer, timer_expired, global_timer_expired,
                   timers, quiz_return>>
    /\ UNCHANGED <<analyzerVars, classfulVars, callVars, generatorVars,
                   focusVars, statsVars>>

NextRepetition == call_sr_update_stats

SpecRepetition == Init /\ [][NextRepetition]_vars

---------------------------------------------------------------------------
(* program.py: get_ip_address under functools.lru_cache *)

\* the class_filter arguments run_quiz passes, lines 977-982 and 1008
ClassFilters == {Str(ClassA), Str(ClassB), Str(ClassC), None}

\* how many times get_ip_address is called
MaxGeneratorCalls == 3

\* CLASS_RANGES[selected_class]
class_range(selected_class) ==
    CLASS_RANGES[CHOOSE k \in DOMAIN CLASS_RANGES :
                     CLASS_RANGES[k][1] = selected_class]

\* the first octets the loop of lines 278-281 can end with: random.randint
\* gives any value of the range, of which the lowest and the highest are
\* taken, and the loop runs until the value is no reserved prefix
FirstOctetDraws(selected_class) ==
    {f \in {class_range(selected_class)[2], class_range(selected_class)[3]} :
        \A r \in DOMAIN RESERVED_PREFIXES : RESERVED_PREFIXES[r][1] # f}

\* the values of other_octets that are drawn, line 283
OtherOctetDraws == {HostSamples[h] : h \in 1..NumHostSamples}

\* the entry of the cache for a key, as a set: empty on a miss
cache_lookup(cache, key) == {entry \in cache : entry[1] = key}

\* get_ip_address, lines 262-285, as lru_cache wraps it. The wrapper looks
\* the argument up: on a hit it returns the stored result and the body does
\* not run. On a miss the body runs: cache_clear() empties the cache, the
\* address is drawn, and after the body has returned the wrapper stores the
\* result under the argument.
get_ip_address ==
    /\ generator_calls < MaxGeneratorCalls
    /\ generator_calls' = generator_calls + 1
    /\ \E class_filter \in ClassFilters :
          IF cache_lookup(ip_cache, class_filter) # {}
          THEN /\ generator_call' =
                     [class_filter |-> class_filter,
                      drawn |-> None,
                      returned |->
                          (CHOOSE entry \in cache_lookup(ip_cache, class_filter) :
                               TRUE)[2]]
               /\ UNCHANGED ip_cache
          ELSE \E selected_class \in
                      IF class_filter = None THEN {ClassA, ClassB, ClassC}
                      ELSE {class_filter.s} :
                  \E first_octet \in FirstOctetDraws(selected_class),
                     other_octets \in OtherOctetDraws :
                      LET result == Str(ip_to_str(<<first_octet>> \o other_octets))
                      IN  /\ generator_call' =
                                [class_filter |-> class_filter,
                                 drawn |-> result,
                                 returned |-> result]
                          /\ ip_cache' = {<<class_filter, result>>}
    /\ UNCHANGED <<analyzerVars, classfulVars, callVars, quizVars, sr_log,
                   focusVars, statsVars>>

NextGenerator == get_ip_address

SpecGenerator == Init /\ [][NextGenerator]_vars

---------------------------------------------------------------------------
(* ch-14.py: SubnetAnalyzer.update_stats, reset_statistics, the settings *)

\* key, lines 101-108: the mastery level a correct attempt counts for
mastery_key(method, difficulty) ==
    IF method = "decimal"
    THEN IF difficulty \in {"easy", "mixed"} THEN "easy_masks_decimal"
         ELSE "difficult_masks_decimal"
    ELSE IF method = "binary" THEN "binary_calculation"
    ELSE "None"

\* SubnetAnalyzer.update_stats that lets an incorrect attempt keep the streak
SubnetAnalyzer_update_stats_keeps_streak(old, method, difficulty, goal, correct, time_taken) ==
    IF correct
    THEN [old EXCEPT
            !.attempts = @ + 1, !.correct = @ + 1, !.streak = @ + 1,
            !.total_time = @ + time_taken,
            !.best_streak = IF old.streak + 1 > @ THEN old.streak + 1 ELSE @]
    ELSE [old EXCEPT !.attempts = @ + 1]

\* SubnetAnalyzer.update_stats(correct, time_taken), lines 85-115, on
\* self.stats, self.calculation_method, self.difficulty_level and
\* self.time_goal: the statistics after the call
SubnetAnalyzer_update_stats(old, method, difficulty, goal, correct, time_taken) ==
    IF correct
    THEN LET key == mastery_key(method, difficulty)
         IN  [old EXCEPT
                !.attempts = @ + 1,
                !.correct = @ + 1,
                !.streak = @ + 1,
                !.total_time = @ + time_taken,
                !.best_streak = IF old.streak + 1 > @ THEN old.streak + 1 ELSE @,
                !.fastest_time =
                    IF @ = Infinity \/ time_taken < @.v THEN PyInt(time_taken)
                    ELSE @,
                !.mastery_levels =
                    IF key # "None" /\ time_taken <= goal
                    THEN [@ EXCEPT ![key] = @ + 1]
                    ELSE @]
    ELSE [old EXCEPT !.attempts = @ + 1, !.streak = 0]

\* how many times update_stats is called on fresh or reset statistics
MaxStatsCalls == 3

\* the times an attempt takes, in seconds: within the default goal and over it
TimesTaken == {DefaultTimeGoal, DefaultTimeGoal + 1}

\* the lowest time goal change_settings accepts, line 1121
MinTimeGoal == 5

\* the highest time goal change_settings accepts, line 1121
MaxTimeGoal == 120

\* what the user types for the time goal
TimeGoalInputs == {MinTimeGoal - 1, MinTimeGoal, DefaultTimeGoal, MaxTimeGoal + 1}

\* a call of update_stats(correct, time_taken), as practice_problem makes it
\* at line 769
call_update_stats ==
    /\ Len(stats_log) < MaxStatsCalls
    /\ \E correct \in BOOLEAN, time_taken \in TimesTaken :
          /\ stats' = SubnetAnalyzer_update_stats(
                          stats, calculation_method, difficulty_level,
                          time_goal, correct, time_taken)
          /\ stats_log' = Append(stats_log, <<correct, time_taken>>)
    /\ UNCHANGED <<analyzerVars, classfulVars, callVars, quizVars, sr_log,
                   generatorVars, focusVars, difficulty_level, time_goal>>

\* reset_statistics, lines 1203-1229
reset_statistics ==
    /\ \E confirm \in {"yes", "no"} :
          IF confirm = "yes"
          THEN stats' = FreshStats /\ stats_log' = <<>>
          ELSE UNCHANGED <<stats, stats_log>>
    /\ UNCHANGED <<analyzerVars, classfulVars, callVars, quizVars, sr_log,
                   generatorVars, focusVars, difficulty_level, time_goal>>

\* change_settings, lines 1108-1115: choice 3, the difficulty level
change_difficulty_level ==
    /\ focus_pc = "menu"
    /\ \E diff_choice \in {"easy", "difficult", "mixed"} :
          difficulty_level' = diff_choice
    /\ UNCHANGED <<analyzerVars, classfulVars, callVars, quizVars, sr_log,
                   generatorVars, focusVars, stats, time_goal, stats_log>>

\* change_settings, lines 1117-1125: choice 4, the time goal
change_time_goal ==
    /\ focus_pc = "menu"
    /\ \E time_val \in TimeGoalInputs :
          IF MinTimeGoal <= time_val /\ time_val <= MaxTimeGoal
          THEN time_goal' = time_val
          ELSE UNCHANGED time_goal
    /\ UNCHANGED <<analyzerVars, classfulVars, callVars, quizVars, sr_log,
                   generatorVars, focusVars, difficulty_level, stats, stats_log>>

NextStats ==
    \/ call_update_stats
    \/ reset_statistics
    \/ change_settings
    \/ change_difficulty_level
    \/ change_time_goal

SpecStats == Init /\ [][NextStats]_vars

---------------------------------------------------------------------------
(* ch-14.py: SubnetAnalyzer.focused_practice *)

\* generate_mask(difficulty), lines 130-152: the masks it can return. "easy"
\* gives /8, /16 or /24; any other difficulty gives one of the twenty masks
\* with one interesting octet, /9 to /30 without /16 and /24
generate_mask(difficulty) ==
    IF difficulty = "easy" THEN {PrefixMask(p) : p \in {8, 16, 24}}
    ELSE {PrefixMask(p) : p \in (9..30) \ {16, 24}}

\* the masks of generate_mask that the problems are drawn with
DrawnMasks(difficulty) ==
    generate_mask(difficulty) \cap {PrefixMask(p) : p \in {8, 18}}

\* what is typed at the focused practice menu: the six options and one
\* other text
FocusChoices == {"1", "2", "3", "4", "5", "6", "x"}

\* how many practice problems are solved
MaxFocusedProblems == 3

\* focused_practice, lines 849-890: the menu, up to the call of
\* the first practice_problem or pdf_practice_problems
focused_practice ==
    /\ focus_pc = "menu"
    /\ stats.attempts < MaxFocusedProblems
    /\ \E typed \in FocusChoices :
          /\ choice' = typed
          /\ old_method' = calculation_method
          /\ old_difficulty' = difficulty_level
          /\ run_log' = <<>>
          /\ IF typed = "1"
             THEN /\ calculation_method' = "decimal"
                  /\ difficulty_level' = "easy"
                  /\ focus_pc' = "first"
             ELSE IF typed = "2"
             THEN /\ calculation_method' = "decimal"
                  /\ difficulty_level' = "difficult"
                  /\ focus_pc' = "first"
             ELSE IF typed = "3"
             THEN /\ calculation_method' = "binary"
                  /\ difficulty_level' = "mixed"
                  /\ focus_pc' = "first"
             ELSE IF typed = "4"
             THEN /\ focus_pc' = "first"
                  /\ UNCHANGED <<calculation_method, difficulty_level>>
             ELSE IF typed = "5"
             THEN /\ \E method \in {"decimal", "binary"},
                        difficulty \in {"easy", "difficult"} :
                        /\ calculation_method' = method
                        /\ difficulty_level' = difficulty
                  /\ focus_pc' = "first"
             ELSE /\ focus_pc' = "menu"
                  /\ UNCHANGED <<calculation_method, difficulty_level>>
    /\ UNCHANGED <<pc, textVars, problemVars, magicVars, answerVars,
                   usableVars, binaryVars, classfulVars, callVars, quizVars,
                   sr_log, generatorVars, stats, time_goal, stats_log>>

\* one problem of a run of focused_practice: practice_problem, lines
\* 706-813, called at line 870, 874, 878, 884 or 901 (through
\* pdf_practice_problems for choice 4, which takes a problem of the book),
\* with update_stats at line 769 and the answer to "Continue practicing?";
\* after the first problem the settings are reset, lines 892-894
focused_practice_problem ==
    /\ focus_pc \in {"first", "again"}
    /\ \E p \in IF choice = "4"
                THEN {BookProblems[b] : b \in 1..NumBaseProblems}
                ELSE {BookProblems[1][1]} \X DrawnMasks(difficulty_level),
          all_correct \in BOOLEAN, elapsed_time \in TimesTaken,
          continue_practice \in BOOLEAN :
          LET s == IF calculation_method = "decimal"
                   THEN decimal_subnet_id(p[1], p[2])
                   ELSE binary_subnet_id(p[1], p[2])
              b == IF calculation_method = "decimal"
                   THEN decimal_broadcast_address(s, p[2])
                   ELSE binary_broadcast_address(p[1], p[2])
              usable == get_usable_range(s, b)
          IN  /\ continue_practice => stats.attempts + 1 < MaxFocusedProblems
              /\ ip' = p[1]
              /\ mask' = p[2]
              /\ ip_str' = ip_to_str(p[1])
              /\ mask_str' = ip_to_str(p[2])
              /\ subnet_id' = s
              /\ broadcast' = b
              /\ first_usable' = usable[1]
              /\ last_usable' = usable[2]
              /\ stats' = SubnetAnalyzer_update_stats(
                              stats, calculation_method, difficulty_level,
                              time_goal, all_correct, elapsed_time)
              /\ stats_log' = Append(stats_log, <<all_correct, elapsed_time>>)
              /\ run_log' = Append(run_log,
                                   [calculation_method |-> calculation_method,
                                    difficulty_level |-> difficulty_level])
              /\ focus_pc' = IF continue_practice THEN "again" ELSE "menu"
    /\ pc' = "practice"
    /\ IF focus_pc = "first"
       THEN /\ calculation_method' = old_method
            /\ difficulty_level' = old_difficulty
       ELSE UNCHANGED <<calculation_method, difficulty_level>>
    /\ UNCHANGED <<magicVars, binaryVars, classfulVars, callVars, quizVars,
                   sr_log, generatorVars, choice, old_method, old_difficulty,
                   time_goal>>

NextFocused ==
    \/ change_settings
    \/ focused_practice
    \/ focused_practice_problem

SpecFocused == Init /\ [][NextFocused]_vars

---------------------------------------------------------------------------
(* Properties of the subnet calculator *)

\* the handler computed subnet_id and broadcast by the decimal method
DecimalRun ==
    \/ pc = "visualization"
    \/ pc = "practice" /\ calculation_method = "decimal"

\* the handler computed subnet_id and broadcast by the binary method
BinaryRun == pc = "practice" /\ calculation_method = "binary"

\* C1: for every valid IP and every prefix mask (/0 to /32) the decimal and
\* the binary method give the same subnet ID and the same broadcast address:
\* what one method computed equals what the other computes.
C1_DecimalEqualsBinary ==
    /\ (DecimalRun /\ mask \in PrefixMasks) =>
          /\ subnet_id = binary_subnet_id(ip, mask)
          /\ broadcast = binary_broadcast_address(ip, mask)
    /\ (BinaryRun /\ mask \in PrefixMasks) =>
          /\ subnet_id = decimal_subnet_id(ip, mask)
          /\ broadcast =
                decimal_broadcast_address(decimal_subnet_id(ip, mask), mask)

\* a binary run on a prefix mask with an interesting octet, where the IP is
\* not itself the subnet ID
C1_Witness ==
    /\ BinaryRun
    /\ mask \in PrefixMasks
    /\ find_interesting_octet(mask) # None
    /\ subnet_id # ip
    /\ broadcast # ip

\* the book's three worked examples: ip, mask, interesting octet, magic
\* number, subnet, broadcast, first and last usable address
WorkedExamples ==
    { [ip |-> <<172, 16, 150, 41>>, mask |-> <<255, 255, 192, 0>>,
       octet |-> 2, magic |-> 64,
       subnet |-> <<172, 16, 128, 0>>, broadcast |-> <<172, 16, 191, 255>>,
       first |-> <<172, 16, 128, 1>>, last |-> <<172, 16, 191, 254>>],
      [ip |-> <<192, 168, 5, 77>>, mask |-> <<255, 255, 255, 224>>,
       octet |-> 3, magic |-> 32,
       subnet |-> <<192, 168, 5, 64>>, broadcast |-> <<192, 168, 5, 95>>,
       first |-> <<192, 168, 5, 65>>, last |-> <<192, 168, 5, 94>>],
      [ip |-> <<10, 1, 4, 0>>, mask |-> <<255, 255, 254, 0>>,
       octet |-> 2, magic |-> 2,
       subnet |-> <<10, 1, 4, 0>>, broadcast |-> <<10, 1, 5, 255>>,
       first |-> <<10, 1, 4, 1>>, last |-> <<10, 1, 5, 254>>] }

\* C2: the three worked examples give the stated interesting octet, magic
\* number, subnet, broadcast and usable range, under the decimal and under
\* the binary method.
C2_WorkedExamples ==
    \A e \in WorkedExamples :
        (pc \in {"practice", "visualization"} /\ ip = e.ip /\ mask = e.mask) =>
            /\ subnet_id = e.subnet /\ broadcast = e.broadcast
            /\ pc = "practice" =>
                  first_usable = e.first /\ last_usable = e.last
            /\ pc = "visualization" =>
                  /\ interesting_octet = PyInt(e.octet)
                  /\ magic_number = PyInt(e.magic)

\* the third example, solved by the binary method
C2_Witness ==
    /\ BinaryRun
    /\ ip = <<10, 1, 4, 0>>
    /\ mask = <<255, 255, 254, 0>>
    /\ last_usable = <<10, 1, 5, 254>>

\* the Python indexes of the mask octets that are neither 0 nor 255
InterestingIndexes(m) == {i \in 0..(OctetCount - 1) : m[i + 1] \notin {0, 255}}

\* C3: find_interesting_octet returns None if and only if every mask octet
\* is 0 or 255, and otherwise the smallest index of an octet that is neither.
C3_InterestingOctet ==
    pc = "visualization" =>
        /\ interesting_octet = None <=> InterestingIndexes(mask) = {}
        /\ InterestingIndexes(mask) # {} =>
              /\ interesting_octet.py = "int"
              /\ interesting_octet.v \in InterestingIndexes(mask)
              /\ \A i \in InterestingIndexes(mask) : interesting_octet.v <= i

\* a mask with two octets that are neither 0 nor 255, after a zero octet
C3_Witness ==
    /\ pc = "visualization"
    /\ mask[1] = 0
    /\ Cardinality(InterestingIndexes(mask)) = 2
    /\ interesting_octet = PyInt(2)

\* C4: for a mask octet v in 1..254, calculate_magic_number(v) + v = 256.
C4_MagicNumber ==
    (pc = "visualization" /\ interesting_octet # None) =>
        /\ mask[interesting_octet.v + 1] \in 1..254
        /\ magic_number.v + mask[interesting_octet.v + 1] = 256

\* the largest magic number, of mask octet 1
C4_Witness ==
    /\ pc = "visualization"
    /\ interesting_octet = PyInt(2)
    /\ mask[3] = 1
    /\ magic_number = PyInt(255)

\* bit k (1 = most significant) of an octet, by arithmetic
BitOf(n, k) == (n \div Pow2(OctetBits - k)) % 2

\* b is 32 characters: for each octet in order, its 8 bits, zero-padded
EncodesOctets(b, o) ==
    /\ Len(b) = 32
    /\ \A j \in 1..4 : \A k \in 1..8 :
          b[8 * (j - 1) + k] = (IF BitOf(o[j], k) = 1 THEN "1" ELSE "0")

\* C5: to_binary of valid Octets is exactly 32 characters of "0"/"1", each
\* octet zero-padded to 8 bits, in order, and from_binary gives the Octets
\* back.
C5_BinaryRoundTrip ==
    pc = "binary_visualization" =>
        \A pair \in {<<binary_ip, ip>>, <<binary_mask, mask>>,
                      <<binary_subnet, subnet_id>>,
                      <<binary_broadcast, broadcast>>} :
            /\ IsOctets(pair[2])
            /\ EncodesOctets(pair[1], pair[2])
            /\ from_binary(pair[1]) = pair[2]

\* 172.16.150.41 written in binary, with a small octet that needs padding
C5_Witness ==
    /\ pc = "binary_visualization"
    /\ ip = <<172, 16, 150, 41>>
    /\ SubSeq(binary_ip, 1, 16) =
          <<"1", "0", "1", "0", "1", "1", "0", "0",
            "0", "0", "0", "1", "0", "0", "0", "0">>

\* the three texts that parsing must reject: "1.2.3", "1.2.3.256", "a.b.c.d"
RejectedTexts ==
    { <<"1", ".", "2", ".", "3">>,
      <<"1", ".", "2", ".", "3", ".", "2", "5", "6">>,
      <<"a", ".", "b", ".", "c", ".", "d">> }

\* parsing the text returned Octets
ParsesToOctets(text) ==
    /\ validate_ip_input(text)
    /\ str_to_ip(text) # Raise("ValueError")
    /\ IsOctets(str_to_ip(text))

\* C6: parsing is the inverse of formatting, and parsing rejects "1.2.3",
\* "1.2.3.256" and "a.b.c.d": the formatted text of a problem parses back to
\* the problem, and a handler that was given one of the three texts stops
\* as invalid.
C6_ParseFormat ==
    /\ pc \in {"practice", "visualization"} =>
          /\ IsOctets(ip) /\ IsOctets(mask)
          /\ ParsesToOctets(ip_to_str(ip)) /\ str_to_ip(ip_to_str(ip)) = ip
          /\ ParsesToOctets(ip_to_str(mask)) /\ str_to_ip(ip_to_str(mask)) = mask
    /\ pc = "practice" =>
          /\ validate_ip_input(ip_str) /\ str_to_ip(ip_str) = ip
          /\ validate_ip_input(mask_str) /\ str_to_ip(mask_str) = mask
    /\ pc # "start" =>
          \A text \in {ip_str, mask_str} \cap RejectedTexts :
              /\ pc = "invalid"
              /\ ~validate_ip_input(text)

\* the text "1.2.3.256" was typed and rejected
C6_Witness ==
    /\ pc = "invalid"
    /\ ip_str = <<"1", ".", "2", ".", "3", ".", "2", "5", "6">>
    /\ ip = None

\* C7 (as claimed): the decimal method yields octets in 0..255 for every
\* valid IP and every mask of four octets in 0..255.
C7_DecimalOctetsValid ==
    DecimalRun => IsOctets(subnet_id) /\ IsOctets(broadcast)

\* C8 (as claimed): for every valid IP and prefix mask /0 to /32 the usable
\* range is subnet_id with last octet + 1 and broadcast with last octet - 1,
\* and both are valid Octets.
C8_UsableRangeValid ==
    (pc = "practice" /\ mask \in PrefixMasks) =>
        /\ first_usable = [subnet_id EXCEPT ![4] = subnet_id[4] + 1]
        /\ last_usable = [broadcast EXCEPT ![4] = broadcast[4] - 1]
        /\ IsOctets(first_usable)
        /\ IsOctets(last_usable)

\* C18: the decimal method works octet by octet. For every valid IP and mask
\* and each octet: a mask octet 255 copies the IP octet into subnet ID and
\* broadcast; a mask octet 0 gives 0 and 255; any other mask octet, with
\* m = 256 - mask octet, gives the largest multiple of m that is <= the IP
\* octet (rounded down, never to the nearest) and that multiple + m - 1.
\* Hence subnet_id[i] <= ip[i] <= broadcast[i] for every octet.
C18_PerOctetRule ==
    DecimalRun =>
        \A k \in 1..OctetCount :
            /\ mask[k] = 255 => subnet_id[k] = ip[k] /\ broadcast[k] = ip[k]
            /\ mask[k] = 0 => subnet_id[k] = 0 /\ broadcast[k] = 255
            /\ mask[k] \notin {0, 255} =>
                  /\ subnet_id[k] % (256 - mask[k]) = 0
                  /\ subnet_id[k] <= ip[k]
                  /\ ip[k] < subnet_id[k] + (256 - mask[k])
                  /\ broadcast[k] = subnet_id[k] + (256 - mask[k]) - 1
            /\ subnet_id[k] <= ip[k]
            /\ ip[k] <= broadcast[k]

\* an interesting octet where the IP octet lies in the upper half of its
\* block: rounding to the nearest multiple would go up
C18_Witness ==
    /\ DecimalRun
    /\ \E k \in 1..OctetCount :
          /\ mask[k] \notin {0, 255}
          /\ 2 * (ip[k] - subnet_id[k]) > 256 - mask[k]
          /\ ip[k] < broadcast[k]

\* the prefix length of a prefix mask
PrefixLengthOf(m) == CHOOSE p \in 0..AddressBits : PrefixMask(p) = m

\* the number two octets spell, the first more significant
PairValue(high, low) == high * OctetModulus + low

\* a < b for four octets read as one number, the first octet most
\* significant: the upper and the lower pair are compared separately, which
\* keeps every intermediate value small
AddressLess(a, b) ==
    LET upper_gap == PairValue(a[1], a[2]) - PairValue(b[1], b[2])
        lower_gap == PairValue(a[3], a[4]) - PairValue(b[3], b[4])
    IN  IF upper_gap > 1 THEN FALSE
        ELSE IF upper_gap < 0 - 1 THEN TRUE
        ELSE upper_gap * OctetModulus * OctetModulus + lower_gap < 0

\* C19: for every valid IP and prefix mask of length p, with addresses
\* compared as the numbers their four octets spell (base 256, as Python's
\* unbounded integers: 255.255.255.256 is one more than 255.255.255.255), the
\* usable range is inverted (first_usable > last_usable) exactly when p is 31
\* or 32, and for every p <= 30
\* subnet_id < first_usable <= last_usable < broadcast.
C19_UsableRangeOrder ==
    (pc = "practice" /\ mask \in PrefixMasks) =>
        /\ AddressLess(last_usable, first_usable)
              <=> (PrefixLengthOf(mask) \in {31, 32})
        /\ PrefixLengthOf(mask) <= 30 =>
              /\ AddressLess(subnet_id, first_usable)
              /\ ~AddressLess(last_usable, first_usable)
              /\ AddressLess(last_usable, broadcast)

\* a /31 subnet: the first usable address is the broadcast address and the
\* last usable address is the subnet ID
C19_Witness ==
    /\ pc = "practice"
    /\ mask = PrefixMask(31)
    /\ first_usable = broadcast
    /\ last_usable = subnet_id
    /\ AddressLess(last_usable, first_usable)

\* four octets read as a 32-bit unsigned value, in two 16-bit halves, the
\* upper half first (one number above 2^31 is beyond the model checker's
\* integers)
Halves(a) == <<PairValue(a[1], a[2]), PairValue(a[3], a[4])>>

\* a - b for two values in halves with a >= b
HalvesMinus(a, b) ==
    IF a[2] >= b[2] THEN <<a[1] - b[1], a[2] - b[2]>>
    ELSE <<a[1] - b[1] - 1, a[2] + OctetModulus * OctetModulus - b[2]>>

\* 2^h - 1 in halves, for h in 0..32
HalvesOfPow2Minus1(h) ==
    <<Pow2(IF h > 16 THEN h - 16 ELSE 0) - 1, Pow2(Min(h, 16)) - 1>>

\* a value in halves is a multiple of 2^h, for h in 0..32
HalvesMultipleOfPow2(a, h) ==
    /\ a[2] % Pow2(Min(h, 16)) = 0
    /\ h > 16 => a[1] % Pow2(h - 16) = 0

\* C23: for every valid IP and prefix mask, with p the count of "1" bits of
\* to_binary(mask) and the addresses read as 32-bit unsigned values, the
\* binary method gives a subnet ID that is a multiple of 2^(32-p), a
\* broadcast address with broadcast - subnet_id + 1 = 2^(32-p), and
\* subnet_id <= ip <= broadcast.
C23_BlockOfPrefix ==
    (pc = "binary_visualization" /\ mask \in PrefixMasks) =>
        LET host_bits == AddressBits - prefix_length.v
        IN  /\ prefix_length.v \in 0..AddressBits
            /\ HalvesMultipleOfPow2(Halves(subnet_id), host_bits)
            /\ ~AddressLess(broadcast, subnet_id)
            /\ HalvesMinus(Halves(broadcast), Halves(subnet_id))
                  = HalvesOfPow2Minus1(host_bits)
            /\ ~AddressLess(ip, subnet_id)
            /\ ~AddressLess(broadcast, ip)

\* the book's /18 problem: 172.16.150.41 lies in 172.16.128.0 to
\* 172.16.191.255, a block of 2^14 addresses
C23_Witness ==
    /\ pc = "binary_visualization"
    /\ prefix_length = PyInt(18)
    /\ ip = <<172, 16, 150, 41>>
    /\ subnet_id = <<172, 16, 128, 0>>
    /\ broadcast = <<172, 16, 191, 255>>
    /\ HalvesMinus(Halves(broadcast), Halves(subnet_id)) = <<0, Pow2(14) - 1>>

\* the octets that are a run of one-bits followed by zero-bits
ContiguousOctets == {0, 128, 192, 224, 240, 248, 252, 254, 255}

\* the binary method gives what the handler computed by the decimal method
AgreesWithBinary ==
    /\ subnet_id = binary_subnet_id(ip, mask)
    /\ broadcast = binary_broadcast_address(ip, mask)

\* C24: the decimal method works on each octet alone, so for a mask of four
\* octets 0..255 it agrees with the binary method on subnet ID and broadcast
\* for every valid IP exactly when every mask octet is one of 0, 128, 192,
\* 224, 240, 248, 252, 254, 255, whether or not the mask is a prefix mask:
\* with such a mask the two agree on every IP, and with any other octet in
\* the mask they disagree on the IPs whose octet at that place is 255.
C24_AgreeIffContiguousOctets ==
    (pc = "visualization") =>
        /\ (\A k \in 1..OctetCount : mask[k] \in ContiguousOctets)
              => AgreesWithBinary
        /\ (\E k \in 1..OctetCount :
                mask[k] \notin ContiguousOctets /\ ip[k] = MaxOctet)
              => ~AgreesWithBinary

\* 255.192.224.0 is no prefix mask and the two methods agree on it
C24_Witness ==
    /\ pc = "visualization"
    /\ mask = <<255, 192, 224, 0>>
    /\ mask \notin PrefixMasks
    /\ ip = <<172, 16, 150, 41>>
    /\ subnet_id = <<172, 0, 128, 0>>
    /\ AgreesWithBinary

\* the ranges of the draw_number_line call that ends
\* interactive_visualization, lines 570-575: the divisor is the magic number
\* of the interesting octet, highlighted_range is (range_start, range_end)
visualization_ranges ==
    ranges(magic_number.v,
           <<subnet_id[interesting_octet.v + 1],
             broadcast[interesting_octet.v + 1]>>)

\* C21 (as claimed): when interactive_visualization draws the number line
\* for the interesting octet k of the mask, with divisor 256 - mask[k] and
\* highlighted range (subnet_id[k], broadcast[k]) of the decimal method,
\* exactly one block of the ranges is marked as highlighted and that block
\* contains ip[k], for every valid IP and every mask octet 1..254.
C21_OneHighlightedBlock ==
    (pc = "visualization" /\ interesting_octet # None) =>
        LET blocks == visualization_ranges
            marked == {k \in DOMAIN blocks : blocks[k].highlighted}
        IN  /\ Cardinality(marked) = 1
            /\ \A k \in marked :
                  /\ blocks[k].start <= ip[interesting_octet.v + 1]
                  /\ ip[interesting_octet.v + 1] <= blocks[k].end

---------------------------------------------------------------------------
(* Properties of the classful resolver *)

\* the text is the dotted-decimal spelling of four octets
IsDottedDecimal(text) ==
    /\ ParsesToOctets(text)
    /\ ip_to_str(str_to_ip(text)) = text

\* the class tag the book gives a first octet
ExpectedClass(f) ==
    IF f = 0 THEN Reserved0
    ELSE IF f <= 126 THEN ClassA
    ELSE IF f = 127 THEN Reserved127
    ELSE IF f <= 191 THEN ClassB
    ELSE IF f <= 223 THEN ClassC
    ELSE IF f <= 239 THEN ClassD
    ELSE ClassE

\* how many entries of CLASS_RANGES and RESERVED_PREFIXES a first octet matches
MatchCount(f) ==
    Cardinality({k \in DOMAIN CLASS_RANGES :
                    CLASS_RANGES[k][2] <= f /\ f <= CLASS_RANGES[k][3]})
        + Cardinality({r \in DOMAIN RESERVED_PREFIXES : RESERVED_PREFIXES[r][1] = f})

\* C9: for every valid IP text get_network_class returns the one tag of its
\* first octet (0 reserved, 1..126 A, 127 reserved, 128..191 B, 192..223 C,
\* 224..239 D, 240..255 E): never None, and no first octet matches two
\* entries of the tables.
C9_NetworkClass ==
    (ip_addr # None /\ IsDottedDecimal(ip_addr)) =>
        LET f == str_to_ip(ip_addr)[1]
        IN  /\ ip_info.network_class # None
            /\ ip_info.network_class = Str(ExpectedClass(f))
            /\ MatchCount(f) = 1

\* 127.0.0.5 is reserved, not class A
C9_Witness ==
    /\ ip_addr # None
    /\ ip_addr = <<"1", "2", "7", ".", "0", ".", "0", ".", "5">>
    /\ ip_info.network_class = Str(Reserved127)

\* the number of network octets the book gives a first octet of class A, B
\* or C, and 0 for every other first octet
ExpectedNetworkOctets(f) ==
    IF f \in 1..126 THEN 1
    ELSE IF f \in 128..191 THEN 2
    ELSE IF f \in 192..223 THEN 3
    ELSE 0

\* C10: for every valid class A, B or C address with n = 1, 2, 3 network
\* octets, the default mask is 255 in the first n octets and 0 in the rest,
\* the network ID copies the first n octets and zero-fills the rest, the
\* broadcast address copies the first n octets and 255-fills the rest; and
\* 10.7.99.133 gives class A, 255.0.0.0, 10.0.0.0, 10.255.255.255.
C10_ClassfulAddresses ==
    /\ (ip_addr # None /\ IsDottedDecimal(ip_addr)
            /\ ExpectedNetworkOctets(str_to_ip(ip_addr)[1]) > 0) =>
          LET o == str_to_ip(ip_addr)
              n == ExpectedNetworkOctets(o[1])
          IN  /\ ip_info.default_mask =
                    Str(ip_to_str([k \in 1..4 |-> IF k <= n THEN 255 ELSE 0]))
              /\ ip_info.network_id =
                    Str(ip_to_str([k \in 1..4 |-> IF k <= n THEN o[k] ELSE 0]))
              /\ ip_info.broadcast =
                    Str(ip_to_str([k \in 1..4 |-> IF k <= n THEN o[k] ELSE 255]))
    /\ (ip_addr # None /\ ip_addr = <<"1", "0", ".", "7", ".", "9", "9", ".", "1", "3", "3">>) =>
          /\ ip_info.network_class = Str(ClassA)
          /\ ip_info.default_mask = Str(<<"2", "5", "5", ".", "0", ".", "0", ".", "0">>)
          /\ ip_info.network_id = Str(<<"1", "0", ".", "0", ".", "0", ".", "0">>)
          /\ ip_info.broadcast = Str(<<"1", "0", ".", "2", "5", "5", ".", "2", "5", "5", ".", "2", "5", "5">>)

\* a class B address: two octets kept
C10_Witness ==
    /\ ip_addr # None
    /\ ip_addr = <<"1", "7", "2", ".", "7", ".", "9", "9", ".", "1", "3", "3">>
    /\ ip_info.network_id = Str(<<"1", "7", "2", ".", "7", ".", "0", ".", "0">>)
    /\ ip_info.broadcast = Str(<<"1", "7", "2", ".", "7", ".", "2", "5", "5", ".", "2", "5", "5">>)

\* the first octet the resolver reads from a text that is_valid_ip accepts
FirstOctetOf(text) == int(split(text, ".")[1])

\* a "not applicable" marker: "N/A" or "N/A - Special class"
IsNotApplicableMarker(value) ==
    value \in {Str(NotApplicable), Str(SpecialClass)}

\* a returned value that is the text of an address
IsAddressText(value) ==
    value.py = "str" /\ is_valid_ip(value.s)

\* C11: for every valid IP of class D or E or of a reserved prefix (first
\* octet 0, 127, 224..255), the default mask, the network ID, the broadcast
\* address and both members of the usable range are each a "not applicable"
\* marker: a text that starts with "N/A", never the text of an address and
\* never None.
C11_NotApplicable ==
    (ip_addr # None /\ is_valid_ip(ip_addr)
        /\ ExpectedNetworkOctets(FirstOctetOf(ip_addr)) = 0) =>
        \A value \in {ip_info.default_mask, ip_info.network_id, ip_info.broadcast,
                       ip_info.usable_range[1], ip_info.usable_range[2]} :
            /\ value # None
            /\ IsNotApplicableMarker(value)
            /\ ~IsAddressText(value)

\* 127.0.0.5: every answer is "N/A - Special class"
C11_Witness ==
    /\ ip_addr # None
    /\ ip_addr = <<"1", "2", "7", ".", "0", ".", "0", ".", "5">>
    /\ ip_info.default_mask = Str(SpecialClass)
    /\ ip_info.network_id = Str(SpecialClass)
    /\ ip_info.broadcast = Str(SpecialClass)
    /\ ip_info.usable_range = <<Str(SpecialClass), Str(SpecialClass)>>

\* C12: for every valid class A, B or C IP the usable range is (first, last)
\* where first is the network ID with its last octet set to 1 and last is
\* the broadcast address with its last octet set to 254, the other octets
\* unchanged: with n network octets, first is the n octets of the IP, then
\* zeros, then 1, and last is the n octets, then 255s, then 254.
C12_UsableIpRange ==
    (ip_addr # None /\ is_valid_ip(ip_addr)
        /\ ExpectedNetworkOctets(FirstOctetOf(ip_addr)) > 0) =>
        LET n == ExpectedNetworkOctets(FirstOctetOf(ip_addr))
            o == split(ip_addr, ".")
            first == ip_info.usable_range[1]
            last == ip_info.usable_range[2]
        IN  /\ first.py = "str" /\ last.py = "str"
            /\ ip_info.network_id.py = "str" /\ ip_info.broadcast.py = "str"
            /\ Len(split(first.s, ".")) = 4 /\ Len(split(last.s, ".")) = 4
            /\ split(first.s, ".")[4] = <<"1">>
            /\ split(last.s, ".")[4] = <<"2", "5", "4">>
            /\ \A k \in 1..3 :
                  /\ split(first.s, ".")[k] = split(ip_info.network_id.s, ".")[k]
                  /\ split(last.s, ".")[k] = split(ip_info.broadcast.s, ".")[k]
                  /\ split(first.s, ".")[k] = IF k <= n THEN o[k] ELSE <<"0">>
                  /\ split(last.s, ".")[k] =
                        IF k <= n THEN o[k] ELSE <<"2", "5", "5">>

\* a class C address: only the last octet differs from the address
C12_Witness ==
    /\ ip_addr # None
    /\ ip_addr = <<"1", "9", "2", ".", "7", ".", "9", "9", ".", "1", "3", "3">>
    /\ ip_info.usable_range =
          <<Str(<<"1", "9", "2", ".", "7", ".", "9", "9", ".", "1">>),
            Str(<<"1", "9", "2", ".", "7", ".", "9", "9", ".", "2", "5", "4">>)>>

\* C22: the classful resolver agrees with the subnet calculator run on the
\* class default mask. For every valid class A, B or C IP with default mask
\* M: get_network_id(ip) is decimal_subnet_id(ip, M), get_broadcast_addr(ip)
\* is decimal_broadcast_address of that subnet and M, and
\* get_usable_ip_range(ip) is get_usable_range(subnet, broadcast), each
\* formatted as dotted decimal.
C22_ResolverAgreesWithCalculator ==
    (ip_addr # None /\ IsDottedDecimal(ip_addr)
        /\ ExpectedNetworkOctets(str_to_ip(ip_addr)[1]) > 0) =>
        /\ ip_info.default_mask.py = "str"
        /\ validate_ip_input(ip_info.default_mask.s)
        /\ LET i == str_to_ip(ip_addr)
               m == str_to_ip(ip_info.default_mask.s)
               s == decimal_subnet_id(i, m)
               b == decimal_broadcast_address(s, m)
               usable == get_usable_range(s, b)
           IN  /\ ip_info.network_id = Str(ip_to_str(s))
               /\ ip_info.broadcast = Str(ip_to_str(b))
               /\ ip_info.usable_range =
                     <<Str(ip_to_str(usable[1])), Str(ip_to_str(usable[2]))>>

\* a class C address whose host octet is 255: the calculator's subnet is
\* 192.255.255.0 and its usable range ends at 192.255.255.254
C22_Witness ==
    /\ ip_addr # None
    /\ ip_addr = ip_to_str(<<192, 255, 255, 255>>)
    /\ ip_info.default_mask = Str(ip_to_str(<<255, 255, 255, 0>>))
    /\ ip_info.network_id =
          Str(ip_to_str(decimal_subnet_id(<<192, 255, 255, 255>>,
                                          <<255, 255, 255, 0>>)))
    /\ ip_info.usable_range[2] = Str(ip_to_str(<<192, 255, 255, 254>>))

---------------------------------------------------------------------------
(* Properties of draw_number_line *)

\* C13: for every magic number d in 1..255 the list of boundary labels is
\* strictly increasing, its first element is 0 and its last element is 255.
C13_LabelsIncrease ==
    number_line # None =>
        /\ number_line.labels # <<>>
        /\ number_line.labels[1] = 0
        /\ number_line.labels[Len(number_line.labels)] = 255
        /\ \A k \in 1..(Len(number_line.labels) - 1) :
              number_line.labels[k] < number_line.labels[k + 1]

\* a divisor that does not divide 255: the last label is the appended 255
C13_Witness ==
    /\ number_line # None
    /\ number_line.divisor = 64
    /\ number_line.labels = <<0, 64, 128, 192, 255>>

\* C14: draw_number_line raises for no magic number 1..255, highlight range
\* and terminal width: the usable width is in 128..256, every index written
\* into a line buffer is in 0..usable-1, and the range table has at least
\* one column and one row.
C14_DrawNeverRaises ==
    number_line # None =>
        /\ number_line.raised = None
        /\ number_line.usable \in 128..256
        /\ number_line.indexes \subseteq 0..(number_line.usable - 1)
        /\ \A k \in DOMAIN number_line.positions :
              number_line.positions[k] \in 0..(number_line.usable - 1)
        /\ number_line.cols >= 1
        /\ number_line.rows # None
        /\ number_line.rows.v >= 1

\* the most labels in the narrowest buffer, with a highlight range
C14_Witness ==
    /\ number_line # None
    /\ number_line.divisor = 1
    /\ number_line.width = 0
    /\ number_line.usable = 128
    /\ number_line.highlighted_range # None
    /\ (number_line.usable - 1) \in number_line.indexes
    /\ number_line.raised = None

\* C20 (as claimed): for every magic number d in 1..255 the ranges table has
\* one block per multiple of d up to 255, the k-th block (from 0) being
\* [k*d, min(k*d + d - 1, 255)], so that there are floor(255/d) + 1 blocks.
C20_RangesPerMultiple ==
    number_line # None =>
        /\ Len(number_line.ranges) = (255 \div number_line.divisor) + 1
        /\ \A k \in DOMAIN number_line.ranges :
              /\ number_line.ranges[k].start = (k - 1) * number_line.divisor
              /\ number_line.ranges[k].end =
                    Min((k - 1) * number_line.divisor + number_line.divisor - 1, 255)

---------------------------------------------------------------------------
(* Properties of the direct calls *)

\* C15 (as claimed): from_binary fails, returning no octets, for every string
\* whose length is not exactly 32 and for every string that contains a
\* character other than "0" or "1".
C15_FromBinaryRejects ==
    (/\ method_call # None
     /\ method_call.method = "from_binary"
     /\ \/ Len(method_call.binary_str) # 32
        \/ \E k \in DOMAIN method_call.binary_str :
              method_call.binary_str[k] \notin {"0", "1"}) =>
        method_return.py = "raise"

\* C16 (as claimed): calculate_magic_number(0) and calculate_magic_number(255)
\* fail with a precondition violation instead of returning a number.
C16_MagicNumberPrecondition ==
    (/\ method_call # None
     /\ method_call.method = "calculate_magic_number"
     /\ method_call.mask_octet \in {0, 255}) =>
        method_return.py = "raise"

\* the calculations whose arguments are lists
CoreMethods ==
    {"decimal_subnet_id", "decimal_broadcast_address", "binary_subnet_id",
     "binary_broadcast_address", "get_usable_range",
     "get_step_by_step_explanation"}

\* C25: the core calculations do not modify their arguments. After
\* decimal_subnet_id, decimal_broadcast_address, binary_subnet_id,
\* binary_broadcast_address, get_usable_range and
\* get_step_by_step_explanation return, every list that existed before the
\* call (ip, mask, subnet_id, broadcast) holds the values it held before;
\* what is returned are other lists, and get_usable_range changes only its
\* own copies.
C25_ArgumentsUnchanged ==
    (method_call # None /\ method_call.method \in CoreMethods) =>
        /\ Len(method_return.heap) >= Len(method_call.heap)
        /\ \A ref \in DOMAIN method_call.heap :
              method_return.heap[ref] = method_call.heap[ref]
        /\ \A k \in DOMAIN method_return.refs :
              method_return.refs[k] \notin DOMAIN method_call.heap

\* get_usable_range on the book's first problem: the returned first usable
\* address differs from the subnet ID passed in, which is as it was
C25_Witness ==
    /\ method_call # None
    /\ method_call.method = "get_usable_range"
    /\ method_call.heap[3] = <<172, 16, 128, 0>>
    /\ method_return.heap[3] = <<172, 16, 128, 0>>
    /\ method_return.heap[method_return.refs[1]] = <<172, 16, 128, 1>>
    /\ method_return.heap[method_return.refs[2]] = <<172, 16, 191, 254>>

---------------------------------------------------------------------------
(* Properties of SpacedRepetitionStats *)

\* C28: after any sequence of update_stats calls on an object that started
\* empty, for every question id: attempts is the number of calls for the id
\* and 0 <= correct <= attempts; the id is in difficult_questions only if
\* attempts >= 2 and correct / attempts < 0.75; and if attempts >= 2 and
\* correct / attempts < 0.6 the id is in difficult_questions.
C28_RepetitionStats ==
    \A id \in QuestionIds :
        LET attempts == StatsOf(sr_stats, id)[1]
            correct_count == StatsOf(sr_stats, id)[2]
            calls == {k \in DOMAIN sr_log : sr_log[k][1] = id}
        IN  /\ attempts = Cardinality(calls)
            /\ 0 <= correct_count
            /\ correct_count <= attempts
            /\ id \in sr_stats.difficult_questions =>
                  attempts >= 2 /\ 4 * correct_count < 3 * attempts
            /\ (attempts >= 2 /\ 10 * correct_count < 6 * attempts) =>
                  id \in sr_stats.difficult_questions

\* two incorrect attempts then three correct ones: at 3 of 5 the question is
\* no longer below 0.6 and not yet at 0.75, and it stays difficult
C28_Witness ==
    /\ sr_log = << <<0, FALSE>>, <<0, FALSE>>, <<0, TRUE>>, <<0, TRUE>>,
                   <<0, TRUE>> >>
    /\ StatsOf(sr_stats, 0) = <<5, 3>>
    /\ 0 \in sr_stats.difficult_questions

---------------------------------------------------------------------------
(* Properties of get_ip_address *)

\* C26 (as claimed): every call of get_ip_address generates a fresh random
\* address: no call is answered from the lru_cache, so each call performs
\* its own random draw; the class of the returned address is class_filter
\* when one is given, and the address never has a reserved prefix.
C26_FreshAddressEachCall ==
    generator_call # None =>
        /\ generator_call.drawn # None
        /\ get_network_class(generator_call.returned.s)
              \in {Str(ClassA), Str(ClassB), Str(ClassC)}
        /\ generator_call.class_filter # None =>
              get_network_class(generator_call.returned.s)
                  = generator_call.class_filter

---------------------------------------------------------------------------
(* Properties of the quiz *)

\* C17 (as claimed): in test mode, whenever the question's timer thread has
\* fired before the answer is read, ask_quiz_question returns False and
\* records an incorrect attempt in sr_stats, even for a correct answer text;
\* an answer read before the timer fires is judged by its validator.
C17_TimerDecides ==
    [][(quiz_pc = "waiting" /\ quiz_pc' = "returned") =>
          IF asked \notin timers
          THEN /\ quiz_return' = PyBool(FALSE)
               /\ StatsOf(sr_stats', question_id) =
                     <<StatsOf(sr_stats, question_id)[1] + 1,
                       StatsOf(sr_stats, question_id)[2]>>
          ELSE quiz_return' =
                  IF validator(question.validator, user_answer',
                               question.correct_answer)
                  THEN PyBool(TRUE) ELSE PyBool(FALSE)]_vars

\* the step on which a call of ask_quiz_question returns
QuizCallReturns == quiz_pc \in {"prompt", "waiting"} /\ quiz_pc' = "returned"

\* what a returning call leaves behind: one more attempt of question_id in
\* sr_stats, counted as correct exactly when True is returned, nothing else
\* of sr_stats touched, and the question object incremented alike
QuizCallRecorded ==
    LET returned_true == quiz_return' = PyBool(TRUE)
        gain == IF returned_true THEN 1 ELSE 0
    IN  /\ quiz_return' \in {PyBool(TRUE), PyBool(FALSE)}
        /\ StatsOf(sr_stats', question_id) =
              <<StatsOf(sr_stats, question_id)[1] + 1,
                StatsOf(sr_stats, question_id)[2] + gain>>
        /\ \A id \in QuestionIds \ {question_id} :
              StatsOf(sr_stats', id) = StatsOf(sr_stats, id)
        /\ question'.attempts = 1
        /\ question'.correct_attempts = gain

\* a prompt of study mode: the count of prompts stays within max_attempts,
\* an accepted answer ends the call with True, and a rejected one is
\* followed by another prompt while prompts are left
StudyPrompt ==
    /\ attempt.v >= 1
    /\ attempt.v <= max_attempts
    /\ IF validator(question.validator, user_answer', question.correct_answer)
       THEN quiz_pc' = "returned" /\ quiz_return' = PyBool(TRUE)
       ELSE IF attempt.v < max_attempts
            THEN quiz_pc' = "prompt" /\ attempt' = PyInt(attempt.v + 1)
            ELSE quiz_pc' = "returned" /\ quiz_return' = PyBool(FALSE)

---------------------------------------------------------------------------
(* Properties of SubnetAnalyzer's statistics *)

RECURSIVE TrailingCorrect(_)
\* the length of the run of correct attempts that ends a log
TrailingCorrect(log) ==
    IF log = <<>> \/ ~log[Len(log)][1] THEN 0
    ELSE 1 + TrailingCorrect(SubSeq(log, 1, Len(log) - 1))

\* the names of the mastery levels
MasteryKeys == DOMAIN FreshStats.mastery_levels

\* the counters agree with the calls made since the statistics were fresh
StatsCounters ==
    /\ stats.attempts = Len(stats_log)
    /\ stats.correct = Cardinality({k \in DOMAIN stats_log : stats_log[k][1]})
    /\ 0 <= stats.streak
    /\ stats.streak <= stats.best_streak
    /\ stats.best_streak <= stats.correct
    /\ stats.correct <= stats.attempts
    /\ stats.streak = TrailingCorrect(stats_log)

\* a call of update_stats leaves every mastery level or adds 1 to it, and
\* adds only after a correct attempt within the time goal, to one level
StatsMasteryStep ==
    (Len(stats_log') = Len(stats_log) + 1) =>
        LET call == stats_log'[Len(stats_log')]
            raised == {key \in MasteryKeys :
                          stats'.mastery_levels[key] # stats.mastery_levels[key]}
        IN  /\ \A key \in raised :
                  /\ stats'.mastery_levels[key] = stats.mastery_levels[key] + 1
                  /\ call[1]
                  /\ call[2] <= time_goal
            /\ Cardinality(raised) <= 1

\* C30: starting from fresh or reset statistics, after any sequence of
\* update_stats(correct, time_taken) calls, attempts is the number of calls,
\* 0 <= streak <= best_streak <= correct <= attempts, streak is the length
\* of the trailing run of correct attempts (0 right after an incorrect one),
\* and a mastery level is raised only by a correct attempt with
\* time_taken <= time_goal, by exactly 1, and never lowered.
C30_StatsCounters == []StatsCounters /\ [][StatsMasteryStep]_vars

\* correct, correct, incorrect: the streak is back to 0, the best streak is
\* 2, and the one attempt within the time goal raised a mastery level
C30_Witness ==
    /\ Len(stats_log) = 3
    /\ stats_log[1][1] /\ stats_log[2][1] /\ ~stats_log[3][1]
    /\ stats.attempts = 3
    /\ stats.streak = 0
    /\ stats.best_streak = 2
    /\ stats.correct = 2
    /\ stats.mastery_levels.binary_calculation = 1
    /\ stats.mastery_levels.easy_masks_decimal = 0

---------------------------------------------------------------------------
(* Properties of focused_practice *)

\* C27 (as claimed): in focused_practice, after the user picks practice mode
\* 1, 2, 3 or 5 and answers "y" to continue, every further problem of the
\* run is generated and solved with the calculation_method and
\* difficulty_level of the first problem of the run; the user's original
\* settings are restored only when the run ends.
C27_RunKeepsSettings ==
    (run_log # <<>> /\ choice \in {"1", "2", "3", "5"}) =>
        /\ \A k \in DOMAIN run_log : run_log[k] = run_log[1]
        /\ focus_pc = "again" =>
              /\ calculation_method = run_log[1].calculation_method
              /\ difficulty_level = run_log[1].difficulty_level

=============================================================================
